---- MODULE Spec2Model ----
(***************************************************************************)
(* Model of the election-results parsers of python-parsers/.  Python      *)
(* strings are sequences of one-character strings, so that substring      *)
(* tests, split, strip, lower and replace are computed as the code        *)
(* computes them.  Python's None is the value None below.                 *)
(***************************************************************************)
EXTENDS Integers, Sequences, FiniteSets, TLC

VARIABLES
    text,          \* the candidate text handed to the party functions
    resolved,      \* what the party function called on it returned
    raw_office,    \* the office text handed to an office normaliser
    normalized,    \* what the office normaliser called on it returned
    doc,           \* p.results: the results the contest-tree reader yields
    turnout,       \* the VoterTurnout section of detail.xml
    region,        \* p.region, None when the parser has no such attribute
    pos,           \* position of the loop over p.results
    results,       \* results: key -> {vote type -> votes}, in insertion order
    vote_types,    \* the set vote_types
    last_ingest,   \* history: (key, vote type) -> the count last ingested for it
    pc,            \* where precinct_results is: scan, emit, done, error
    output,        \* the CSV written: headers and rows
    run,           \* 1 in the first run over a document, 2 in the second
    first_doc,     \* the results of the first run, in its order
    first_output,  \* the CSV of the first run
    parser,        \* which line parser scans: electionware, electionware2, fort_bend, collin
    current_precinct,     \* parse_election_data's current_precinct
    current_office,       \* parse_election_data's current_office
    district,             \* parse_election_data's district
    precinct_stats_added, \* parse_election_data's precinct_stats_added
    data,          \* the records appended so far
    line,          \* history: the stripped line the last loop pass handled
    scanned,       \* number of lines the loop has passed over
    csv,           \* the rows main wrote, in file order
    detail_xml,    \* the file detail.xml of the working directory
    scans,         \* per county of download_county_files: where its pass is
    no_xml,        \* download_county_files' no_xml
    statewide      \* statewide_results: its record list, where it is, the rows written

partyVars == <<text, resolved>>
officeVars == <<raw_office, normalized>>
clarityVars == <<doc, turnout, region, pos, results, vote_types, last_ingest, pc, output,
                 run, first_doc, first_output>>
scanVars == <<parser, current_precinct, current_office, district, precinct_stats_added,
              data, line, scanned, csv>>
batchVars == <<detail_xml, scans, no_xml>>
statewideVars == <<statewide>>
vars == <<partyVars, officeVars, clarityVars, scanVars, batchVars, statewideVars>>

\* ------------------------------------------------------------ bounds
\* Number of pieces a candidate text is assembled from.
MaxPieces == 3

\* ------------------------------------------------------------ strings
\* Python's None in a slot that otherwise holds a string.
None == <<"None">>

\* The printable ASCII characters in code-point order (code = index + 31); the
\* double quote, backslash and backtick are held by names.
Ascii == <<" ","!","QUOTE","#","$","%","&","'","(",")","*","+",",","-",".","/","0","1","2","3","4","5","6","7","8","9",":",";","<","=",">","?","@","A","B","C","D","E","F","G","H","I","J","K","L","M","N","O","P","Q","R","S","T","U","V","W","X","Y","Z","[","BACKSLASH","]","^","_","BACKTICK","a","b","c","d","e","f","g","h","i","j","k","l","m","n","o","p","q","r","s","t","u","v","w","x","y","z","{","|","}","~">>

\* ord(c), tabulated
CodeOf == [c \in {Ascii[i] : i \in 1..Len(Ascii)} |->
             31 + (CHOOSE i \in 1..Len(Ascii) : Ascii[i] = c)]

Ord(c) == CodeOf[c]

\* str.startswith
StartsWith(s, p) == Len(p) <= Len(s) /\ SubSeq(s, 1, Len(p)) = p

\* str.endswith
EndsWith(s, p) == Len(p) <= Len(s) /\ SubSeq(s, Len(s) - Len(p) + 1, Len(s)) = p

\* p in s
Contains(s, p) ==
    \E i \in 1..(Len(s) - Len(p) + 1) : SubSeq(s, i, i + Len(p) - 1) = p

\* str.find, 1-based; 0 when p does not occur
Find(s, p) ==
    IF Contains(s, p)
    THEN CHOOSE i \in 1..(Len(s) - Len(p) + 1) :
            /\ SubSeq(s, i, i + Len(p) - 1) = p
            /\ \A j \in 1..(i - 1) : SubSeq(s, j, j + Len(p) - 1) # p
    ELSE 0

IsSpace(c) == c = " "

RECURSIVE LStrip(_)
LStrip(s) == IF s # <<>> /\ IsSpace(Head(s)) THEN LStrip(Tail(s)) ELSE s

RECURSIVE RStrip(_)
RStrip(s) ==
    IF s # <<>> /\ IsSpace(s[Len(s)]) THEN RStrip(SubSeq(s, 1, Len(s) - 1)) ELSE s

\* str.strip()
Strip(s) == RStrip(LStrip(s))

\* str.split(sep): the parts between the non-overlapping occurrences of sep,
\* found left to right
RECURSIVE Split(_, _)
Split(s, sep) ==
    LET i == Find(s, sep)
    IN  IF i = 0 THEN <<s>>
        ELSE <<SubSeq(s, 1, i - 1)>> \o Split(SubSeq(s, i + Len(sep), Len(s)), sep)

\* str.split(sep, 1)
Split1(s, sep) ==
    LET i == Find(s, sep)
    IN  IF i = 0 THEN <<s>>
        ELSE <<SubSeq(s, 1, i - 1), SubSeq(s, i + Len(sep), Len(s))>>

\* str.replace(c, empty) for a one-character c
RECURSIVE RemoveChar(_, _)
RemoveChar(s, c) ==
    IF s = <<>> THEN <<>>
    ELSE (IF Head(s) = c THEN <<>> ELSE <<Head(s)>>) \o RemoveChar(Tail(s), c)


\* ------------------------------------------------------------ clarity_parser.py
\* parse_candidate_party with the marker kept whatever follows it
parse_candidate_party_keeps_marker(candidate_text) ==
    LET candidate == Strip(candidate_text)
    IN  IF Contains(candidate, <<"(","I",")">>)
        THEN <<Strip(Split(candidate, <<"(","I",")">>)[1]) \o <<" ","(","I",")">>, <<"I">>>>
        ELSE <<candidate, None>>

\* parse_candidate_party with the marker dropped whatever follows it
parse_candidate_party_drops_marker(candidate_text) ==
    LET candidate == Strip(candidate_text)
    IN  IF Contains(candidate, <<"(","I",")">>)
        THEN <<Strip(Split(candidate, <<"(","I",")">>)[1]), <<"I">>>>
        ELSE <<candidate, None>>

\* parse_candidate_party with the generic parenthesised-party rule tried first
parse_candidate_party_generic_first(candidate_text) ==
    LET candidate == Strip(candidate_text)
    IN  IF Contains(candidate, <<"(">>)
        THEN LET two == Split1(candidate, <<"(">>)
             IN  <<Strip(two[1]), Strip(RemoveChar(two[2], ")"))>>
        ELSE <<candidate, None>>

\* parse_candidate_party(candidate_text) -> (candidate, party)
parse_candidate_party(candidate_text) ==
    LET candidate == Strip(candidate_text)
    IN  IF Contains(candidate, <<"(">>)
        THEN IF Contains(candidate, <<"(","I",")">>)
             THEN IF Contains(candidate, <<"(","I",")","(","I",")">>)
                  THEN <<Strip(Split(candidate, <<"(","I",")">>)[1]), <<"I">>>>
                  ELSE LET parts == Split(candidate, <<"(","I",")">>)
                           name == Strip(parts[1])
                       IN  IF Len(parts) > 1 /\ Strip(parts[2]) # <<>>
                           THEN <<name \o <<" ","(","I",")">>, <<"I">>>>
                           ELSE <<name, <<"I">>>>
             ELSE LET two == Split1(candidate, <<"(">>)
                  IN  <<Strip(two[1]), Strip(RemoveChar(two[2], ")"))>>
        ELSE <<candidate, None>>


\* statewide_results: the party resolution written inline in the result loop,
\* for a candidate text with no party known from the contest.  ok is FALSE
\* when the two-name unpacking of split raises ValueError.
statewide_resolve(choice_text) ==
    IF Contains(choice_text, <<"(">>)
    THEN IF Contains(choice_text, <<"(","I",")">>)
         THEN IF Contains(choice_text, <<"(","I",")","(","I",")">>)
              THEN [ok |-> TRUE,
                    candidate |-> Strip(Split(choice_text, <<"(","I",")">>)[1]) \o <<" ","(","I",")">>,
                    party |-> Strip(RemoveChar(<<"I">>, ")"))]
              ELSE LET parts == Split(choice_text, <<"(","I",")">>)
                   IN  IF Len(parts) # 2
                       THEN [ok |-> FALSE, candidate |-> choice_text, party |-> None]
                       ELSE [ok |-> TRUE,
                             candidate |-> Strip(parts[1]) \o <<" ","(","I",")">>,
                             party |-> Strip(RemoveChar(parts[2], ")"))]
         ELSE LET two == Split1(choice_text, <<"(">>)
              IN  [ok |-> TRUE, candidate |-> Strip(two[1]),
                   party |-> Strip(RemoveChar(two[2], ")"))]
    ELSE [ok |-> TRUE, candidate |-> choice_text, party |-> None]

\* party_prefixes of clean_candidate_name, in list order
party_prefixes == <<<<"R","E","P"," ">>, <<"D","E","M"," ">>, <<"L","I","B"," ">>, <<"G","R","N"," ">>, <<"I","N","D"," ">>>>

\* clean_candidate_name with the loop run again on what is left, until no
\* prefix of the list matches
RECURSIVE clean_candidate_name_every_prefix(_)
clean_candidate_name_every_prefix(candidate_text) ==
    IF candidate_text = <<>> THEN candidate_text
    ELSE LET candidate == Strip(candidate_text)
         IN  IF \E k \in 1..Len(party_prefixes) : StartsWith(candidate, party_prefixes[k])
             THEN clean_candidate_name_every_prefix(Strip(SubSeq(candidate, 5, Len(candidate))))
             ELSE candidate

\* clean_candidate_name(candidate_text): the first prefix of the list that the
\* stripped text starts with is cut off, and the loop breaks
clean_candidate_name(candidate_text) ==
    IF candidate_text = <<>> THEN candidate_text
    ELSE LET candidate == Strip(candidate_text)
             hits == {k \in 1..Len(party_prefixes) : StartsWith(candidate, party_prefixes[k])}
         IN  IF hits = {} THEN candidate
             ELSE LET k == CHOOSE k \in hits : \A j \in hits : k <= j
                  IN  Strip(SubSeq(candidate, Len(party_prefixes[k]) + 1, Len(candidate)))

\* ------------------------------------------------------------ more of str, int
\* a < b for two strings, as Python compares them (by code point)
RECURSIVE StrLess(_, _)
StrLess(a, b) ==
    IF b = <<>> THEN FALSE
    ELSE IF a = <<>> THEN TRUE
    ELSE IF Head(a) = Head(b) THEN StrLess(Tail(a), Tail(b))
    ELSE Ord(Head(a)) < Ord(Head(b))

\* str.lower() of one character
LowerChar(c) == IF Ord(c) >= 65 /\ Ord(c) <= 90 THEN Ascii[Ord(c) + 32 - 31] ELSE c

\* vt.replace(' ', '_').lower()
column_name(vt) == [i \in 1..Len(vt) |-> LowerChar(IF vt[i] = " " THEN "_" ELSE vt[i])]

Digits == <<"0","1","2","3","4","5","6","7","8","9">>

IsDigit(c) == \E d \in 1..10 : Digits[d] = c

DigitVal(c) == (CHOOSE d \in 1..10 : Digits[d] = c) - 1

\* int(s) raises ValueError unless s is a run of digits
IsInt(s) == s # <<>> /\ \A i \in 1..Len(s) : IsDigit(s[i])

\* int(s) for a run of digits
RECURSIVE IntOf(_)
IntOf(s) == IF s = <<>> THEN 0 ELSE 10 * IntOf(SubSeq(s, 1, Len(s) - 1)) + DigitVal(s[Len(s)])

\* ------------------------------------------------------------ parse_office

\* the text after the first occurrence of sep, cut at " - " when it holds one
DistrictAfter(office_text, sep) ==
    LET district_part == Split(office_text, sep)[2]
    IN  IF Contains(district_part, <<" ","-"," ">>)
        THEN Strip(Split(district_part, <<" ","-"," ">>)[1])
        ELSE Strip(district_part)

\* parse_office with the standardisation rules tested on the whole office text,
\* not on the part of it taken as the office
parse_office_rules_on_whole_text(raw) ==
    IF raw = None \/ raw = <<>> THEN <<<<>>, None>>
    ELSE
    LET office_text == Strip(raw)
        office0 == IF Contains(office_text, <<" ","-"," ">>)
                   THEN Strip(Split(office_text, <<" ","-"," ">>)[1])
                   ELSE IF Contains(office_text, <<",">>)
                   THEN Strip(Split(office_text, <<",">>)[1])
                   ELSE office_text
        district0 ==
            IF Contains(office_text, <<","," ","D","i","s","t","r","i","c","t">>) THEN DistrictAfter(office_text, <<","," ","D","i","s","t","r","i","c","t">>)
            ELSE IF Contains(office_text, <<","," ","D","i","s","t">>) THEN DistrictAfter(office_text, <<","," ","D","i","s","t">>)
            ELSE IF Contains(office_text, <<"P","r","e","c","i","n","c","t">>)
            THEN Strip(Split(office_text, <<"P","r","e","c","i","n","c","t">>)[2])
            ELSE IF Contains(office_text, <<","," ","P","l"," ">>) THEN DistrictAfter(office_text, <<","," ","P","l"," ">>)
            ELSE None
    IN  IF Contains(office_text, <<"P","r","e","s","i","d","e","n","t","/","V","i","c","e"," ","P","r","e","s","i","d","e","n","t">>) THEN <<<<"P","r","e","s","i","d","e","n","t">>, district0>>
        ELSE IF \/ Contains(office_text, <<"U","n","i","t","e","d"," ","S","t","a","t","e","s"," ","S","e","n","a","t","o","r">>)
                \/ Contains(office_text, <<"U","S"," ","S","e","n","a","t","o","r">>)
                \/ Contains(office_text, <<"U","."," ","S","."," ","S","e","n","a","t","o","r">>)
        THEN <<<<"U",".","S","."," ","S","e","n","a","t","e">>, None>>
        ELSE IF \/ Contains(office_text, <<"U","S"," ","R","e","p","r","e","s","e","n","t","a","t","i","v","e">>)
                \/ Contains(office_text, <<"U",".","S","."," ","R","e","p","r","e","s","e","n","t","a","t","i","v","e">>)
                \/ Contains(office_text, <<"U","n","i","t","e","d"," ","S","t","a","t","e","s"," ","R","e","p","r","e","s","e","n","t","a","t","i","v","e">>)
        THEN <<<<"U",".","S","."," ","H","o","u","s","e">>, district0>>
        ELSE <<office0, district0>>

\* parse_office(office_text) -> (office, district)
parse_office(raw) ==
    IF raw = None \/ raw = <<>> THEN <<<<>>, None>>
    ELSE
    LET office_text == Strip(raw)
        office0 == IF Contains(office_text, <<" ","-"," ">>)
                   THEN Strip(Split(office_text, <<" ","-"," ">>)[1])
                   ELSE IF Contains(office_text, <<",">>)
                   THEN Strip(Split(office_text, <<",">>)[1])
                   ELSE office_text
        district0 ==
            IF Contains(office_text, <<","," ","D","i","s","t","r","i","c","t">>) THEN DistrictAfter(office_text, <<","," ","D","i","s","t","r","i","c","t">>)
            ELSE IF Contains(office_text, <<","," ","D","i","s","t">>) THEN DistrictAfter(office_text, <<","," ","D","i","s","t">>)
            ELSE IF Contains(office_text, <<"P","r","e","c","i","n","c","t">>)
            THEN Strip(Split(office_text, <<"P","r","e","c","i","n","c","t">>)[2])
            ELSE IF Contains(office_text, <<","," ","P","l"," ">>) THEN DistrictAfter(office_text, <<","," ","P","l"," ">>)
            ELSE None
    IN  IF Contains(office0, <<"P","r","e","s","i","d","e","n","t","/","V","i","c","e"," ","P","r","e","s","i","d","e","n","t">>) THEN <<<<"P","r","e","s","i","d","e","n","t">>, district0>>
        ELSE IF \/ Contains(office0, <<"U","n","i","t","e","d"," ","S","t","a","t","e","s"," ","S","e","n","a","t","o","r">>)
                \/ Contains(office0, <<"U","S"," ","S","e","n","a","t","o","r">>)
                \/ Contains(office0, <<"U","."," ","S","."," ","S","e","n","a","t","o","r">>)
        THEN <<<<"U",".","S","."," ","S","e","n","a","t","e">>, None>>
        ELSE IF \/ Contains(office0, <<"U","S"," ","R","e","p","r","e","s","e","n","t","a","t","i","v","e">>)
                \/ Contains(office0, <<"U",".","S","."," ","R","e","p","r","e","s","e","n","t","a","t","i","v","e">>)
                \/ Contains(office0, <<"U","n","i","t","e","d"," ","S","t","a","t","e","s"," ","R","e","p","r","e","s","e","n","t","a","t","i","v","e">>)
        THEN <<<<"U",".","S","."," ","H","o","u","s","e">>, district0>>
        ELSE <<office0, district0>>
\* ------------------------------------------------------------ line parsers
\* Character classes of the regular expressions.
DigitSet == {"0","1","2","3","4","5","6","7","8","9"}
DigitComma == DigitSet \cup {","}
DigitDot == DigitSet \cup {"."}
Letters == {"a","b","c","d","e","f","g","h","i","j","k","l","m","n","o","p","q","r","s","t","u","v","w","x","y","z","A","B","C","D","E","F","G","H","I","J","K","L","M","N","O","P","Q","R","S","T","U","V","W","X","Y","Z"}

\* s[n:]
Drop(s, n) == SubSeq(s, n + 1, Len(s))

\* The longest prefix of s made of characters of cls: a greedy [cls]*.
RECURSIVE Run(_, _)
Run(s, cls) ==
    IF s = <<>> \/ Head(s) \notin cls THEN <<>> ELSE <<Head(s)>> \o Run(Tail(s), cls)

\* The longest prefix of s with no character of cls: s[:s.find(g)] for the
\* first run g of [cls]+ in s.
RECURSIVE Until(_, _)
Until(s, cls) ==
    IF s = <<>> \/ Head(s) \in cls THEN <<>> ELSE <<Head(s)>> \o Until(Tail(s), cls)

\* s matches [cls]+ from its first to its last character.
AllIn(s, cls) == s # <<>> /\ \A i \in 1..Len(s) : s[i] \in cls

\* re.findall('[cls]+', s)
RECURSIVE FindAll(_, _)
FindAll(s, cls) ==
    IF s = <<>> THEN <<>>
    ELSE LET g == Run(s, cls)
         IN  IF g = <<>> THEN FindAll(Tail(s), cls)
             ELSE <<g>> \o FindAll(Drop(s, Len(g)), cls)

\* The first whitespace-delimited token of s (s has no leading whitespace).
RECURSIVE FirstToken(_)
FirstToken(s) ==
    IF s = <<>> \/ IsSpace(Head(s)) THEN <<>> ELSE <<Head(s)>> \o FirstToken(Tail(s))

\* s.split()
RECURSIVE SplitWs(_)
SplitWs(s) ==
    LET t == LStrip(s)
    IN  IF t = <<>> THEN <<>>
        ELSE <<FirstToken(t)>> \o SplitWs(Drop(t, Len(FirstToken(t))))

\* ' '.join(parts)
RECURSIVE Join(_)
Join(parts) ==
    IF parts = <<>> THEN <<>>
    ELSE IF Len(parts) = 1 THEN parts[1]
    ELSE parts[1] \o <<" ">> \o Join(Tail(parts))

\* s.lower()
Lower(s) == [i \in 1..Len(s) |-> LowerChar(s[i])]

\* IsNum that takes a field of commas alone for a number.
IsNum_accepts_commas(g) == AllIn(g, DigitComma)

\* int(g.replace(',', '')): defined when IsNum(g), else ValueError.
IsNum(g) == IsInt(RemoveChar(g, ","))
Num(g) == IntOf(RemoveChar(g, ","))

\* (\s+([cls]+)){k} matched at the start of s: each group is the whole run,
\* since a shorter group would be followed by a character of cls, not by \s.
RECURSIVE Fields(_, _, _)
Fields(s, k, cls) ==
    IF k = 0 THEN [ok |-> TRUE, groups |-> <<>>]
    ELSE LET t == LStrip(s)
             g == Run(t, cls)
             more == Fields(Drop(t, Len(g)), k - 1, cls)
         IN  IF Len(t) = Len(s) \/ g = <<>> \/ ~more.ok
             THEN [ok |-> FALSE, groups |-> <<>>]
             ELSE [ok |-> TRUE, groups |-> <<g>> \o more.groups]

\* lits[1] (\s+ lits[i])* matched at the start of s; rest is what follows.
RECURSIVE AfterLits(_, _)
AfterLits(s, lits) ==
    IF ~StartsWith(s, lits[1]) THEN [ok |-> FALSE, rest |-> <<>>]
    ELSE LET r == Drop(s, Len(lits[1]))
         IN  IF Len(lits) = 1 THEN [ok |-> TRUE, rest |-> r]
             ELSE IF LStrip(r) = r THEN [ok |-> FALSE, rest |-> <<>>]
             ELSE AfterLits(LStrip(r), Tail(lits))

\* The pattern lits[1] (\s+ lits[i])* (\s+([cls]+)){k} matched at the start of s.
MatchHere(s, lits, k, cls) ==
    IF AfterLits(s, lits).ok THEN Fields(AfterLits(s, lits).rest, k, cls)
    ELSE [ok |-> FALSE, groups |-> <<>>]

\* re.search of that pattern in s: the leftmost position where it matches.
SearchFields(s, lits, k, cls) ==
    LET at == {p \in 1..Len(s) : MatchHere(Drop(s, p - 1), lits, k, cls).ok}
    IN  IF at = {} THEN [ok |-> FALSE, groups |-> <<>>]
        ELSE LET p == CHOOSE p \in at : \A q \in at : p <= q
             IN  MatchHere(Drop(s, p - 1), lits, k, cls)

\* The last whitespace-delimited token of s (s has no trailing whitespace).
RECURSIVE LastToken(_)
LastToken(s) ==
    IF s = <<>> \/ IsSpace(s[Len(s)]) THEN <<>>
    ELSE Append(LastToken(SubSeq(s, 1, Len(s) - 1)), s[Len(s)])

\* (\s+([cls]+)){k}$ matched at the end of a stripped line: the groups are
\* its last k tokens; head is what precedes the first \s+ together with
\* that whitespace.
RECURSIVE TailFields(_, _, _)
TailFields(s, k, cls) ==
    LET g == LastToken(s)
        h == SubSeq(s, 1, Len(s) - Len(g))
        before == IF k = 1 THEN [ok |-> TRUE, groups |-> <<>>, head |-> h]
                  ELSE TailFields(RStrip(h), k - 1, cls)
    IN  IF ~AllIn(g, cls) \/ h = <<>> \/ ~before.ok
        THEN [ok |-> FALSE, groups |-> <<>>, head |-> <<>>]
        ELSE [ok |-> TRUE, groups |-> Append(before.groups, g), head |-> before.head]

\* re.match(r'^\s*(codes)\s+(.+?)(\s+([cls]+)){4}$', s) on a stripped line,
\* the codes being three characters long; name is group(2).strip().  The
\* lazy group ends where only whitespace separates it from the last four
\* tokens; it is whitespace itself when nothing else stands between.
CandidateMatch(s, codes, cls) ==
    LET tf == TailFields(s, 4, cls)
        X == Drop(tf.head, 3)
    IN  IF /\ tf.ok /\ Len(X) >= 3
           /\ SubSeq(tf.head, 1, 3) \in codes
           /\ IsSpace(X[1])
        THEN [ok |-> TRUE, party |-> SubSeq(s, 1, 3), name |-> Strip(X), groups |-> tf.groups]
        ELSE [ok |-> FALSE, party |-> <<>>, name |-> <<>>, groups |-> <<>>]

\* ---- records and statistics rows shared by the line parsers
\* The '' of a vote column that holds no count; counts are never negative.
EmptyCell == -1

\* One appended record; '' in a method column is EmptyCell.
Record(county, precinct, office, dist, party, candidate, votes, absentee, early_voting, election_day) ==
    [county |-> county, precinct |-> precinct, office |-> office, district |-> dist,
     party |-> party, candidate |-> candidate, votes |-> votes, absentee |-> absentee,
     early_voting |-> early_voting, election_day |-> election_day]

\* The state of parse_election_data before its first line.
ScanStart ==
    [current_precinct |-> None, current_office |-> None, district |-> <<>>,
     precinct_stats_added |-> {}, data |-> <<>>]

\* All of the groups convert with int(g.replace(',', '')).
AllNum(groups) == \A i \in 1..Len(groups) : IsNum(groups[i])

\* The first pattern of the chain that re.search finds gives the district.
RECURSIVE FirstDistrict(_, _)
FirstDistrict(l, chain) ==
    IF chain = <<>> THEN <<>>
    ELSE IF SearchFields(l, Head(chain), 1, DigitSet).ok
    THEN SearchFields(l, Head(chain), 1, DigitSet).groups[1]
    ELSE FirstDistrict(l, Tail(chain))

\* registered_voters_row with 0, not '', in the vote-method columns.
registered_voters_row_zero_columns(st, l, county) ==
    LET match == SearchFields(l, <<<<"R","e","g","i","s","t","e","r","e","d"," ","V","o","t","e","r","s"," ","-"," ","T","o","t","a","l">>>>, 1, DigitComma)
        flag == st.current_precinct \o <<"_","r","e","g","i","s","t","e","r","e","d">>
    IN  IF match.ok /\ flag \notin st.precinct_stats_added /\ AllNum(match.groups)
        THEN [st EXCEPT
                !.data = Append(st.data, Record(county, st.current_precinct, <<"R","e","g","i","s","t","e","r","e","d"," ","V","o","t","e","r","s">>,
                                          <<>>, <<>>, <<>>, Num(match.groups[1]), 0, 0, 0)),
                !.precinct_stats_added = st.precinct_stats_added \cup {flag}]
        ELSE st

\* "Registered Voters - Total 1,053": one record, once per flag.
registered_voters_row(st, l, county) ==
    LET match == SearchFields(l, <<<<"R","e","g","i","s","t","e","r","e","d"," ","V","o","t","e","r","s"," ","-"," ","T","o","t","a","l">>>>, 1, DigitComma)
        flag == st.current_precinct \o <<"_","r","e","g","i","s","t","e","r","e","d">>
    IN  IF match.ok /\ flag \notin st.precinct_stats_added /\ AllNum(match.groups)
        THEN [st EXCEPT
                !.data = Append(st.data, Record(county, st.current_precinct, <<"R","e","g","i","s","t","e","r","e","d"," ","V","o","t","e","r","s">>,
                                          <<>>, <<>>, <<>>, Num(match.groups[1]),
                                          EmptyCell, EmptyCell, EmptyCell)),
                !.precinct_stats_added = st.precinct_stats_added \cup {flag}]
        ELSE st

\* "Ballots Cast - Total 730 25 600 105" and "Ballots Cast - Blank 1 0 1 0":
\* one record, once per flag; cols gives the positions of the absentee,
\* early and election-day groups.
ballots_row(st, l, county, lit, office, suffix, cols) ==
    LET match == SearchFields(l, <<lit>>, 4, DigitComma)
        flag == st.current_precinct \o suffix
    IN  IF match.ok /\ flag \notin st.precinct_stats_added /\ AllNum(match.groups)
        THEN [st EXCEPT
                !.data = Append(st.data, Record(county, st.current_precinct, office,
                                          <<>>, <<>>, <<>>, Num(match.groups[1]),
                                          Num(match.groups[cols[1]]),
                                          Num(match.groups[cols[2]]),
                                          Num(match.groups[cols[3]]))),
                !.precinct_stats_added = st.precinct_stats_added \cup {flag}]
        ELSE st

\* "Overvotes 0 0 0 0" and "Undervotes 1 0 1 0" under the current office.
over_under_row(st, l, county, lit, candidate, office, cols) ==
    LET match == SearchFields(l, <<lit>>, 4, DigitComma)
    IN  IF match.ok /\ AllNum(match.groups)
        THEN [st EXCEPT
                !.data = Append(st.data, Record(county, st.current_precinct, office,
                                          st.district, <<>>, candidate,
                                          Num(match.groups[1]),
                                          Num(match.groups[cols[1]]),
                                          Num(match.groups[cols[2]]),
                                          Num(match.groups[cols[3]])))]
        ELSE st

\* A candidate record under the current office.
candidate_row(st, county, office, party, candidate, votes, absentee, early, election_day) ==
    [st EXCEPT !.data = Append(st.data, Record(county, st.current_precinct, office, st.district,
                                         party, candidate, votes, absentee, early,
                                         election_day))]

PartyCodes == {<<"R","E","P">>, <<"D","E","M">>, <<"L","I","B">>, <<"G","R","N">>, <<"I","N","D">>}

\* ---------------------------------------------------------- electionware.py
\* Group positions of absentee, early, election day after the total.
electionware_cols == <<2, 3, 4>>

electionware_normalize_office_name(office_text) ==
    LET office == Strip(office_text)
    IN  IF Contains(office, <<"P","r","e","s","i","d","e","n","t","/","V","i","c","e"," ","P","r","e","s","i","d","e","n","t">>)
           \/ Contains(office, <<"P","r","e","s","i","d","e","n","t"," ","a","n","d"," ","V","i","c","e"," ","P","r","e","s","i","d","e","n","t">>) THEN <<"P","r","e","s","i","d","e","n","t">>
        ELSE IF Contains(office, <<"U","S"," ","S","e","n","a","t","o","r">>) \/ Contains(office, <<"U",".","S","."," ","S","e","n","a","t","o","r">>)
        THEN <<"U",".","S","."," ","S","e","n","a","t","e">>
        ELSE IF Contains(office, <<"U","S"," ","R","e","p","r","e","s","e","n","t","a","t","i","v","e">>)
                \/ Contains(office, <<"U",".","S","."," ","R","e","p","r","e","s","e","n","t","a","t","i","v","e">>) THEN <<"U",".","S","."," ","H","o","u","s","e">>
        ELSE IF Contains(office, <<"S","t","a","t","e"," ","R","e","p","r","e","s","e","n","t","a","t","i","v","e">>) THEN <<"S","t","a","t","e"," ","R","e","p","r","e","s","e","n","t","a","t","i","v","e">>
        ELSE IF Contains(office, <<"R","a","i","l","r","o","a","d"," ","C","o","m","m","i","s","s","i","o","n","e","r">>) THEN <<"R","a","i","l","r","o","a","d"," ","C","o","m","m","i","s","s","i","o","n","e","r">>
        ELSE IF Contains(office, <<"J","u","s","t","i","c","e",","," ","S","u","p","r","e","m","e"," ","C","o","u","r","t">>) THEN office
        ELSE IF Contains(office, <<"J","u","d","g","e",",">>) \/ Contains(office, <<"J","u","s","t","i","c","e",",">>)
                \/ Contains(office, <<"P","r","e","s","i","d","i","n","g"," ","J","u","d","g","e">>) THEN office
        ELSE IF Contains(office, <<"M","e","m","b","e","r",","," ","S","t","a","t","e"," ","B","o","E">>) THEN <<"S","t","a","t","e"," ","B","o","a","r","d"," ","o","f"," ","E","d","u","c","a","t","i","o","n">>
        ELSE IF Contains(office, <<"D","i","s","t"," ","A","t","t","o","r","n","e","y">>) \/ Contains(office, <<"D","i","s","t","r","i","c","t"," ","A","t","t","o","r","n","e","y">>)
        THEN <<"D","i","s","t","r","i","c","t"," ","A","t","t","o","r","n","e","y">>
        ELSE IF Contains(office, <<"C","o","u","n","t","y">>) THEN office
        ELSE IF Contains(office, <<"S","h","e","r","i","f","f">>) THEN <<"S","h","e","r","i","f","f">>
        ELSE office

electionware_office_indicators ==
    {<<"P","r","e","s","i","d","e","n","t","/","V","i","c","e"," ","P","r","e","s","i","d","e","n","t">>, <<"U","S"," ","S","e","n","a","t","o","r">>, <<"U",".","S","."," ","S","e","n","a","t","o","r">>, <<"U","S"," ","R","e","p","r","e","s","e","n","t","a","t","i","v","e">>,
     <<"U",".","S","."," ","R","e","p","r","e","s","e","n","t","a","t","i","v","e">>, <<"R","a","i","l","r","o","a","d"," ","C","o","m","m","i","s","s","i","o","n","e","r">>, <<"J","u","s","t","i","c","e",","," ","S","u","p","r","e","m","e"," ","C","o","u","r","t">>,
     <<"J","u","s","t","i","c","e",",">>, <<"J","u","d","g","e",",">>, <<"P","r","e","s","i","d","i","n","g"," ","J","u","d","g","e">>, <<"M","e","m","b","e","r",","," ","S","t","a","t","e"," ","B","o","E">>,
     <<"S","t","a","t","e"," ","R","e","p","r","e","s","e","n","t","a","t","i","v","e">>, <<"D","i","s","t"," ","A","t","t","o","r","n","e","y">>, <<"C","o","u","n","t","y"," ","A","t","t","o","r","n","e","y">>, <<"C","o","u","n","t","y"," ","C","o","m","m","i","s","s","i","o","n","e","r">>,
     <<"C","o","u","n","t","y"," ","C","l","e","r","k">>, <<"C","o","u","n","t","y"," ","T","a","x">>, <<"S","h","e","r","i","f","f">>, <<"C","o","n","s","t","a","b","l","e">>, <<"B","o","a","r","d"," ","o","f"," ","T","r","u","s","t","e","e","s">>,
     <<"C","h","i","e","f"," ","J","u","s","t","i","c","e">>}

electionware_skip_terms ==
    {<<"V","o","t","e"," ","F","o","r">>, <<"T","O","T","A","L">>, <<"A","b","s","e","n","t","e","e">>, <<"E","a","r","l","y">>, <<"E","l","e","c","t","i","o","n">>, <<"V","o","t","i","n","g">>, <<"D","a","y">>,
     <<"T","o","t","a","l"," ","V","o","t","e","s"," ","C","a","s","t">>, <<"W","r","i","t","e","-","I","n"," ","T","o","t","a","l","s">>, <<"N","o","t"," ","A","s","s","i","g","n","e","d">>, <<"C","o","n","t","e","s","t"," ","T","o","t","a","l","s">>,
     <<"W","r","i","t","e","-","I","n",":">>}

\* The office header check: the line becomes current_office and the first of
\* Dist, Place, Pct, Pl followed by a number gives the district.  The loop
\* goes on with the same line afterwards.
\* An office header that keeps the district of the header before it when
\* its own text names none.
electionware_office_keeps_district(st, l) ==
    IF \E indicator \in electionware_office_indicators : Contains(l, indicator)
    THEN [st EXCEPT !.current_office = l,
                    !.district = IF FirstDistrict(l, <<<<<<"D","i","s","t">>>>, <<<<"P","l","a","c","e">>>>, <<<<"P","c","t">>>>, <<<<"P","l">>>>>>) = <<>>
                                 THEN st.district
                                 ELSE FirstDistrict(l, <<<<<<"D","i","s","t">>>>, <<<<"P","l","a","c","e">>>>, <<<<"P","c","t">>>>, <<<<"P","l">>>>>>)]
    ELSE st

electionware_office(st, l) ==
    IF \E indicator \in electionware_office_indicators : Contains(l, indicator)
    THEN [st EXCEPT !.current_office = l,
                    !.district = FirstDistrict(l, <<<<<<"D","i","s","t">>>>, <<<<"P","l","a","c","e">>>>, <<<<"P","c","t">>>>,
                                                    <<<<"P","l">>>>>>)]
    ELSE st

\* The candidate pattern and the append that follows it.
electionware_candidate(st, l, county) ==
    LET candidate_match == CandidateMatch(l, PartyCodes, DigitSet)
    IN  IF candidate_match.ok /\ ~StartsWith(candidate_match.name, <<"W","r","i","t","e","-","I","n",":">>)
        THEN candidate_row(st, county,
                           electionware_normalize_office_name(st.current_office),
                           candidate_match.party, candidate_match.name,
                           Num(candidate_match.groups[1]),
                           Num(candidate_match.groups[2]),
                           Num(candidate_match.groups[3]),
                           Num(candidate_match.groups[4]))
        ELSE st

\* One pass of the loop of parse_election_data over a line.
\* A precinct header that also forgets the office and district of the
\* precinct before it.
electionware_precinct_resets_office(st, l) ==
    [st EXCEPT !.current_precinct = <<"P","r","e","c","i","n","c","t"," ">> \o LStrip(Drop(l, 9)),
               !.current_office = None,
               !.district = <<>>]

\* A precinct header that also empties the statistic flags.
electionware_precinct_clears_flags(st, l) ==
    [st EXCEPT !.current_precinct = <<"P","r","e","c","i","n","c","t"," ">> \o LStrip(Drop(l, 9)),
               !.precinct_stats_added = {}]

\* A line "Precinct <name>" replaces the current precinct; the statistic
\* flags, keyed by precinct name, are kept.
electionware_precinct(st, l) ==
    [st EXCEPT !.current_precinct = <<"P","r","e","c","i","n","c","t"," ">> \o LStrip(Drop(l, 9))]

electionware_line(st, raw, county) ==
    LET l == Strip(raw)
    IN  IF l = <<>> THEN st
        ELSE IF StartsWith(l, <<"P","r","e","c","i","n","c","t"," ">>)
        THEN electionware_precinct(st, l)
        ELSE IF st.current_precinct = None THEN st
        ELSE IF l = <<"S","t","a","t","i","s","t","i","c","s">>
                \/ (Contains(l, <<"T","O","T","A","L">>) /\ Contains(l, <<"A","b","s","e","n","t","e","e">>) /\ Contains(l, <<"E","a","r","l","y">>))
        THEN st
        ELSE IF Contains(l, <<"R","e","g","i","s","t","e","r","e","d"," ","V","o","t","e","r","s"," ","-"," ","T","o","t","a","l">>)
        THEN registered_voters_row(st, l, county)
        ELSE IF Contains(l, <<"B","a","l","l","o","t","s"," ","C","a","s","t"," ","-"," ","T","o","t","a","l">>)
        THEN ballots_row(st, l, county, <<"B","a","l","l","o","t","s"," ","C","a","s","t"," ","-"," ","T","o","t","a","l">>, <<"B","a","l","l","o","t","s"," ","C","a","s","t">>,
                         <<"_","b","a","l","l","o","t","s">>, electionware_cols)
        ELSE IF Contains(l, <<"B","a","l","l","o","t","s"," ","C","a","s","t"," ","-"," ","B","l","a","n","k">>)
        THEN ballots_row(st, l, county, <<"B","a","l","l","o","t","s"," ","C","a","s","t"," ","-"," ","B","l","a","n","k">>, <<"B","a","l","l","o","t","s"," ","C","a","s","t"," ","-"," ","B","l","a","n","k">>,
                         <<"_","b","l","a","n","k">>, electionware_cols)
        ELSE IF StartsWith(l, <<"O","v","e","r","v","o","t","e","s">>) /\ st.current_office # None
        THEN over_under_row(st, l, county, <<"O","v","e","r","v","o","t","e","s">>, <<"O","v","e","r"," ","V","o","t","e","s">>,
                            electionware_normalize_office_name(st.current_office),
                            electionware_cols)
        ELSE IF StartsWith(l, <<"U","n","d","e","r","v","o","t","e","s">>) /\ st.current_office # None
        THEN over_under_row(st, l, county, <<"U","n","d","e","r","v","o","t","e","s">>, <<"U","n","d","e","r"," ","V","o","t","e","s">>,
                            electionware_normalize_office_name(st.current_office),
                            electionware_cols)
        ELSE LET found == electionware_office(st, l)
             IN  IF found.current_office = None THEN found
                 ELSE IF \E skip_term \in electionware_skip_terms : Contains(l, skip_term)
                 THEN found
                 ELSE electionware_candidate(found, l, county)

\* ------------------------------------------------------------- fort_bend.py
\* Group positions of absentee, early, election day: the columns of the
\* Fort Bend report are total, election day, absentee, early.
fort_bend_cols == <<3, 4, 2>>

fort_bend_normalize_office_name(office_text) ==
    LET office == Strip(office_text)
    IN  IF Contains(office, <<"P","r","e","s","i","d","e","n","t">>)
           /\ (Contains(office, <<"V","i","c","e"," ","P","r","e","s","i","d","e","n","t">>) \/ Contains(office, <<"V","i","c","e","-","P","r","e","s","i","d","e","n","t">>))
        THEN <<"P","r","e","s","i","d","e","n","t">>
        ELSE IF Contains(office, <<"P","r","e","s","i","d","e","n","t","/","V","i","c","e","-","P","r","e","s","i","d","e","n","t">>) THEN <<"P","r","e","s","i","d","e","n","t">>
        ELSE IF Contains(office, <<"U","n","i","t","e","d"," ","S","t","a","t","e","s"," ","S","e","n","a","t","o","r">>) \/ Contains(office, <<"U","S"," ","S","e","n","a","t","o","r">>)
                \/ Contains(office, <<"U",".","S","."," ","S","e","n","a","t","o","r">>) THEN <<"U",".","S","."," ","S","e","n","a","t","e">>
        ELSE IF Contains(office, <<"U","n","i","t","e","d"," ","S","t","a","t","e","s"," ","R","e","p","r","e","s","e","n","t","a","t","i","v","e">>)
                \/ Contains(office, <<"U","S"," ","R","e","p","r","e","s","e","n","t","a","t","i","v","e">>)
                \/ Contains(office, <<"U",".","S","."," ","R","e","p","r","e","s","e","n","t","a","t","i","v","e">>) THEN <<"U",".","S","."," ","H","o","u","s","e">>
        ELSE IF Contains(office, <<"S","t","a","t","e"," ","R","e","p","r","e","s","e","n","t","a","t","i","v","e">>) THEN <<"S","t","a","t","e"," ","R","e","p","r","e","s","e","n","t","a","t","i","v","e">>
        ELSE IF Contains(office, <<"S","t","a","t","e"," ","S","e","n","a","t","o","r">>) THEN <<"S","t","a","t","e"," ","S","e","n","a","t","e">>
        ELSE IF Contains(office, <<"R","a","i","l","r","o","a","d"," ","C","o","m","m","i","s","s","i","o","n","e","r">>) THEN <<"R","a","i","l","r","o","a","d"," ","C","o","m","m","i","s","s","i","o","n","e","r">>
        ELSE IF Contains(office, <<"J","u","s","t","i","c","e",","," ","S","u","p","r","e","m","e"," ","C","o","u","r","t">>) THEN office
        ELSE IF Contains(office, <<"J","u","d","g","e",",">>) \/ Contains(office, <<"J","u","s","t","i","c","e",",">>)
                \/ Contains(office, <<"P","r","e","s","i","d","i","n","g"," ","J","u","d","g","e">>) THEN office
        ELSE IF Contains(office, <<"M","e","m","b","e","r",","," ","S","t","a","t","e"," ","B","o","e">>) THEN <<"S","t","a","t","e"," ","B","o","a","r","d"," ","o","f"," ","E","d","u","c","a","t","i","o","n">>
        ELSE IF Contains(office, <<"D","i","s","t","r","i","c","t"," ","A","t","t","o","r","n","e","y">>) \/ Contains(office, <<"D","i","s","t"," ","A","t","t","o","r","n","e","y">>)
        THEN <<"D","i","s","t","r","i","c","t"," ","A","t","t","o","r","n","e","y">>
        ELSE IF Contains(office, <<"C","o","u","n","t","y">>) THEN office
        ELSE IF Contains(office, <<"S","h","e","r","i","f","f">>) THEN <<"S","h","e","r","i","f","f">>
        ELSE office

fort_bend_office_indicators ==
    {<<"P","r","e","s","i","d","e","n","t">>, <<"V","i","c","e","-","P","r","e","s","i","d","e","n","t">>, <<"U","n","i","t","e","d"," ","S","t","a","t","e","s"," ","S","e","n","a","t","o","r">>, <<"U","S"," ","S","e","n","a","t","o","r">>,
     <<"U",".","S","."," ","S","e","n","a","t","o","r">>, <<"U","n","i","t","e","d"," ","S","t","a","t","e","s"," ","R","e","p","r","e","s","e","n","t","a","t","i","v","e">>, <<"U","S"," ","R","e","p","r","e","s","e","n","t","a","t","i","v","e">>,
     <<"U",".","S","."," ","R","e","p","r","e","s","e","n","t","a","t","i","v","e">>, <<"R","a","i","l","r","o","a","d"," ","C","o","m","m","i","s","s","i","o","n","e","r">>, <<"J","u","s","t","i","c","e",","," ","S","u","p","r","e","m","e"," ","C","o","u","r","t">>,
     <<"J","u","s","t","i","c","e",",">>, <<"J","u","d","g","e",",">>, <<"P","r","e","s","i","d","i","n","g"," ","J","u","d","g","e">>, <<"M","e","m","b","e","r",","," ","S","t","a","t","e"," ","B","o","E">>,
     <<"S","t","a","t","e"," ","R","e","p","r","e","s","e","n","t","a","t","i","v","e">>, <<"S","t","a","t","e"," ","S","e","n","a","t","o","r">>, <<"D","i","s","t","r","i","c","t"," ","A","t","t","o","r","n","e","y">>, <<"D","i","s","t"," ","A","t","t","o","r","n","e","y">>,
     <<"C","o","u","n","t","y"," ","A","t","t","o","r","n","e","y">>, <<"C","o","u","n","t","y"," ","C","o","m","m","i","s","s","i","o","n","e","r">>, <<"C","o","u","n","t","y"," ","C","l","e","r","k">>, <<"C","o","u","n","t","y"," ","T","a","x">>,
     <<"S","h","e","r","i","f","f">>, <<"C","o","n","s","t","a","b","l","e">>, <<"B","o","a","r","d"," ","o","f"," ","T","r","u","s","t","e","e","s">>, <<"C","h","i","e","f"," ","J","u","s","t","i","c","e">>,
     <<"C","o","u","r","t"," ","o","f"," ","A","p","p","e","a","l","s">>, <<"J","u","d","i","c","i","a","l"," ","D","i","s","t","r","i","c","t">>}

fort_bend_skip_terms ==
    {<<"V","o","t","e"," ","F","o","r">>, <<"T","O","T","A","L">>, <<"V","O","T","E"," ","%">>, <<"A","b","s","e","n","t","e","e">>, <<"E","a","r","l","y">>, <<"E","l","e","c","t","i","o","n">>, <<"V","o","t","i","n","g">>, <<"D","a","y">>,
     <<"T","o","t","a","l"," ","V","o","t","e","s"," ","C","a","s","t">>, <<"N","o","t"," ","A","s","s","i","g","n","e","d">>, <<"C","o","n","t","e","s","t"," ","T","o","t","a","l","s">>, <<"W","r","i","t","e","-","I","n",":">>,
     <<"V","o","t","e","r"," ","T","u","r","n","o","u","t">>}

\* re.match(r'^(\d+)(?:\s*-\s*(\d+))?$', line): "1006" or "1004 - 1".
fort_bend_precinct_match(l) ==
    LET number == Run(l, DigitSet)
        rest == LStrip(Drop(l, Len(number)))
        sub == LStrip(Drop(rest, 1))
    IN  IF number = <<>> THEN [ok |-> FALSE, name |-> <<>>]
        ELSE IF Len(number) = Len(l) THEN [ok |-> TRUE, name |-> <<"P","r","e","c","i","n","c","t"," ">> \o number]
        ELSE IF rest # <<>> /\ Head(rest) = "-" /\ sub # <<>> /\ AllIn(sub, DigitSet)
        THEN [ok |-> TRUE, name |-> <<"P","r","e","c","i","n","c","t"," ">> \o number \o <<"-">> \o sub]
        ELSE [ok |-> FALSE, name |-> <<>>]

\* The tokens of parts that match [\d,]+$ from their first character.
RECURSIVE NumberTokens(_)
NumberTokens(parts) ==
    IF parts = <<>> THEN <<>>
    ELSE IF AllIn(Head(parts), DigitComma) THEN <<Head(parts)>> \o NumberTokens(Tail(parts))
    ELSE NumberTokens(Tail(parts))

\* "Write-In Totals 12 0.47% 3 0 9"
fort_bend_write_in_totals(st, l, county) ==
    LET parts == SplitWs(l)
        numbers == NumberTokens(Drop(parts, 2))
    IN  IF AllNum(numbers) /\ Len(numbers) >= 4
        THEN candidate_row(st, county, fort_bend_normalize_office_name(st.current_office),
                           <<>>, <<"W","r","i","t","e","-","I","n"," ","T","o","t","a","l","s">>, Num(numbers[1]), Num(numbers[3]),
                           Num(numbers[4]), Num(numbers[2]))
        ELSE st

\* The token-based parse of a candidate line.
fort_bend_candidate(st, l, county) ==
    LET parts == SplitWs(l)
        starts == {j \in 2..Len(parts) : AllIn(parts[j], DigitComma)
                                           \/ Contains(parts[j], <<"%">>)}
        number_start == IF starts = {} THEN 0
                        ELSE CHOOSE j \in starts : \A k \in starts : j <= k
        candidate_name == Join(SubSeq(parts, 2, number_start - 1))
        numbers == NumberTokens(Drop(parts, number_start - 1))
    IN  IF /\ Len(parts) >= 6
           /\ number_start > 2
           /\ AllNum(numbers) /\ Len(numbers) >= 4
           /\ ~StartsWith(candidate_name, <<"W","r","i","t","e","-","I","n",":">>)
        THEN candidate_row(st, county, fort_bend_normalize_office_name(st.current_office),
                           parts[1], candidate_name, Num(numbers[1]), Num(numbers[3]),
                           Num(numbers[4]), Num(numbers[2]))
        ELSE st

\* One pass of the while loop of parse_election_data over a line.
fort_bend_line(st, raw, county) ==
    LET l == Strip(raw)
    IN  IF l = <<>> THEN st
        ELSE IF fort_bend_precinct_match(l).ok
        THEN [st EXCEPT !.current_precinct = fort_bend_precinct_match(l).name,
                        !.precinct_stats_added = {}]
        ELSE IF st.current_precinct = None THEN st
        ELSE IF l = <<"S","T","A","T","I","S","T","I","C","S">> THEN st
        ELSE IF Contains(l, <<"R","e","g","i","s","t","e","r","e","d"," ","V","o","t","e","r","s"," ","-"," ","T","o","t","a","l">>)
        THEN registered_voters_row(st, l, county)
        ELSE IF Contains(l, <<"B","a","l","l","o","t","s"," ","C","a","s","t"," ","-"," ","T","o","t","a","l">>)
        THEN ballots_row(st, l, county, <<"B","a","l","l","o","t","s"," ","C","a","s","t"," ","-"," ","T","o","t","a","l">>, <<"B","a","l","l","o","t","s"," ","C","a","s","t">>,
                         <<"_","b","a","l","l","o","t","s">>, fort_bend_cols)
        ELSE IF Contains(l, <<"B","a","l","l","o","t","s"," ","C","a","s","t"," ","-"," ","B","l","a","n","k">>)
        THEN ballots_row(st, l, county, <<"B","a","l","l","o","t","s"," ","C","a","s","t"," ","-"," ","B","l","a","n","k">>, <<"B","a","l","l","o","t","s"," ","C","a","s","t"," ","-"," ","B","l","a","n","k">>,
                         <<"_","b","l","a","n","k">>, fort_bend_cols)
        ELSE IF StartsWith(l, <<"O","v","e","r","v","o","t","e","s">>) /\ st.current_office # None
        THEN over_under_row(st, l, county, <<"O","v","e","r","v","o","t","e","s">>, <<"O","v","e","r"," ","V","o","t","e","s">>,
                            fort_bend_normalize_office_name(st.current_office),
                            fort_bend_cols)
        ELSE IF StartsWith(l, <<"U","n","d","e","r","v","o","t","e","s">>) /\ st.current_office # None
        THEN over_under_row(st, l, county, <<"U","n","d","e","r","v","o","t","e","s">>, <<"U","n","d","e","r"," ","V","o","t","e","s">>,
                            fort_bend_normalize_office_name(st.current_office),
                            fort_bend_cols)
        ELSE IF \E indicator \in fort_bend_office_indicators : Contains(l, indicator)
        THEN [st EXCEPT !.current_office = l,
                        !.district = FirstDistrict(l, <<<<<<"D","i","s","t","r","i","c","t">>>>,
                                                        <<<<"P","r","e","c","i","n","c","t">>, <<"N","o",".">>>>,
                                                        <<<<"P","l","a","c","e">>>>>>)]
        ELSE IF st.current_office # None /\ StartsWith(l, <<"W","r","i","t","e","-","I","n"," ","T","o","t","a","l","s">>)
        THEN fort_bend_write_in_totals(st, l, county)
        ELSE IF \E skip_term \in fort_bend_skip_terms : Contains(l, skip_term) THEN st
        ELSE IF st.current_office # None
                /\ \E code \in PartyCodes : StartsWith(l, code)
        THEN fort_bend_candidate(st, l, county)
        ELSE st

\* The line index after a loop body whose precinct-header path continues
\* without advancing.
fort_bend_index_header_stays(st, raw, i) ==
    LET l == Strip(raw)
    IN  IF l = <<>> THEN i + 1
        ELSE IF fort_bend_precinct_match(l).ok THEN i
        ELSE IF st.current_precinct = None THEN i + 1
        ELSE IF l = <<"S","T","A","T","I","S","T","I","C","S">> THEN i + 1
        ELSE IF Contains(l, <<"R","e","g","i","s","t","e","r","e","d"," ","V","o","t","e","r","s"," ","-"," ","T","o","t","a","l">>) THEN i + 1
        ELSE IF Contains(l, <<"B","a","l","l","o","t","s"," ","C","a","s","t"," ","-"," ","T","o","t","a","l">>) THEN i + 1
        ELSE IF Contains(l, <<"B","a","l","l","o","t","s"," ","C","a","s","t"," ","-"," ","B","l","a","n","k">>) THEN i + 1
        ELSE IF StartsWith(l, <<"O","v","e","r","v","o","t","e","s">>) /\ st.current_office # None THEN i + 1
        ELSE IF StartsWith(l, <<"U","n","d","e","r","v","o","t","e","s">>) /\ st.current_office # None THEN i + 1
        ELSE IF \E indicator \in fort_bend_office_indicators : Contains(l, indicator) THEN i + 1
        ELSE IF st.current_office # None /\ StartsWith(l, <<"W","r","i","t","e","-","I","n"," ","T","o","t","a","l","s">>) THEN i + 1
        ELSE IF \E skip_term \in fort_bend_skip_terms : Contains(l, skip_term) THEN i + 1
        ELSE IF /\ st.current_office # None
                /\ \E code \in PartyCodes : StartsWith(l, code)
                /\ Len(SplitWs(l)) >= 6
                /\ StartsWith(SplitWs(l)[2], <<"W","r","i","t","e","-","I","n",":">>)
        THEN i + 1
        ELSE i + 1

\* The line index i after one pass of the while loop of fort_bend over the
\* line at i: every path that ends in continue advances i itself (blank line,
\* precinct header, no precinct, STATISTICS, the three statistics, over and
\* under votes, office header, write-in totals, skip terms, the Write-In:
\* filter of the candidate branch); a pass that falls through, with or
\* without a record or by the except clause, reaches the i += 1 after the try.
fort_bend_index(st, raw, i) ==
    LET l == Strip(raw)
    IN  IF l = <<>> THEN i + 1
        ELSE IF fort_bend_precinct_match(l).ok THEN i + 1
        ELSE IF st.current_precinct = None THEN i + 1
        ELSE IF l = <<"S","T","A","T","I","S","T","I","C","S">> THEN i + 1
        ELSE IF Contains(l, <<"R","e","g","i","s","t","e","r","e","d"," ","V","o","t","e","r","s"," ","-"," ","T","o","t","a","l">>) THEN i + 1
        ELSE IF Contains(l, <<"B","a","l","l","o","t","s"," ","C","a","s","t"," ","-"," ","T","o","t","a","l">>) THEN i + 1
        ELSE IF Contains(l, <<"B","a","l","l","o","t","s"," ","C","a","s","t"," ","-"," ","B","l","a","n","k">>) THEN i + 1
        ELSE IF StartsWith(l, <<"O","v","e","r","v","o","t","e","s">>) /\ st.current_office # None THEN i + 1
        ELSE IF StartsWith(l, <<"U","n","d","e","r","v","o","t","e","s">>) /\ st.current_office # None THEN i + 1
        ELSE IF \E indicator \in fort_bend_office_indicators : Contains(l, indicator) THEN i + 1
        ELSE IF st.current_office # None /\ StartsWith(l, <<"W","r","i","t","e","-","I","n"," ","T","o","t","a","l","s">>) THEN i + 1
        ELSE IF \E skip_term \in fort_bend_skip_terms : Contains(l, skip_term) THEN i + 1
        ELSE IF /\ st.current_office # None
                /\ \E code \in PartyCodes : StartsWith(l, code)
                /\ Len(SplitWs(l)) >= 6
                /\ StartsWith(SplitWs(l)[2], <<"W","r","i","t","e","-","I","n",":">>)
        THEN i + 1
        ELSE i + 1

\* --------------------------------------------------------- electionware2.py
\* The branches after "Sheriff" all return the office unchanged.
electionware2_normalize_office_name(office_text) ==
    LET office == Strip(office_text)
    IN  IF Contains(office, <<"P","r","e","s","i","d","e","n","t","/","V","i","c","e"," ","P","r","e","s","i","d","e","n","t">>)
           \/ Contains(office, <<"P","r","e","s","i","d","e","n","t"," ","a","n","d"," ","V","i","c","e"," ","P","r","e","s","i","d","e","n","t">>) THEN <<"P","r","e","s","i","d","e","n","t">>
        ELSE IF Contains(office, <<"U","S"," ","S","e","n","a","t","o","r">>) \/ Contains(office, <<"U",".","S","."," ","S","e","n","a","t","o","r">>)
        THEN <<"U",".","S","."," ","S","e","n","a","t","e">>
        ELSE IF Contains(office, <<"U","S"," ","R","e","p","r","e","s","e","n","t","a","t","i","v","e">>)
                \/ Contains(office, <<"U",".","S","."," ","R","e","p","r","e","s","e","n","t","a","t","i","v","e">>) THEN <<"U",".","S","."," ","H","o","u","s","e">>
        ELSE IF Contains(office, <<"S","t","a","t","e"," ","R","e","p","r","e","s","e","n","t","a","t","i","v","e">>) THEN <<"S","t","a","t","e"," ","R","e","p","r","e","s","e","n","t","a","t","i","v","e">>
        ELSE IF Contains(office, <<"R","a","i","l","r","o","a","d"," ","C","o","m","m","i","s","s","i","o","n","e","r">>) THEN <<"R","a","i","l","r","o","a","d"," ","C","o","m","m","i","s","s","i","o","n","e","r">>
        ELSE IF Contains(office, <<"J","u","s","t","i","c","e",","," ","S","u","p","r","e","m","e"," ","C","o","u","r","t">>) THEN office
        ELSE IF Contains(office, <<"J","u","d","g","e",",">>) \/ Contains(office, <<"J","u","s","t","i","c","e",",">>)
                \/ Contains(office, <<"P","r","e","s","i","d","i","n","g"," ","J","u","d","g","e">>) THEN office
        ELSE IF Contains(office, <<"M","e","m","b","e","r",","," ","S","t","a","t","e"," ","B","o","E">>) THEN <<"S","t","a","t","e"," ","B","o","a","r","d"," ","o","f"," ","E","d","u","c","a","t","i","o","n">>
        ELSE IF Contains(office, <<"D","i","s","t"," ","A","t","t","o","r","n","e","y">>) \/ Contains(office, <<"D","i","s","t","r","i","c","t"," ","A","t","t","o","r","n","e","y">>)
        THEN <<"D","i","s","t","r","i","c","t"," ","A","t","t","o","r","n","e","y">>
        ELSE IF Contains(office, <<"C","o","u","n","t","y">>) THEN office
        ELSE IF Contains(office, <<"S","h","e","r","i","f","f">>) THEN <<"S","h","e","r","i","f","f">>
        ELSE office

electionware2_office_indicators ==
    {<<"P","r","e","s","i","d","e","n","t","/","V","i","c","e"," ","P","r","e","s","i","d","e","n","t">>, <<"U","S"," ","S","e","n","a","t","o","r">>, <<"U",".","S","."," ","S","e","n","a","t","o","r">>, <<"U","S"," ","R","e","p","r","e","s","e","n","t","a","t","i","v","e">>,
     <<"U",".","S","."," ","R","e","p","r","e","s","e","n","t","a","t","i","v","e">>, <<"R","a","i","l","r","o","a","d"," ","C","o","m","m","i","s","s","i","o","n","e","r">>, <<"J","u","s","t","i","c","e",","," ","S","u","p","r","e","m","e"," ","C","o","u","r","t">>,
     <<"J","u","s","t","i","c","e",",">>, <<"J","u","d","g","e",",">>, <<"P","r","e","s","i","d","i","n","g"," ","J","u","d","g","e">>, <<"M","e","m","b","e","r",","," ","S","t","a","t","e"," ","B","o","E">>,
     <<"S","t","a","t","e"," ","R","e","p","r","e","s","e","n","t","a","t","i","v","e">>, <<"D","i","s","t"," ","A","t","t","o","r","n","e","y">>, <<"C","o","u","n","t","y"," ","A","t","t","o","r","n","e","y">>, <<"C","o","u","n","t","y"," ","C","o","m","m","i","s","s","i","o","n","e","r">>,
     <<"C","o","u","n","t","y"," ","C","l","e","r","k">>, <<"C","o","u","n","t","y"," ","T","a","x">>, <<"S","h","e","r","i","f","f">>, <<"C","o","n","s","t","a","b","l","e">>, <<"B","o","a","r","d"," ","o","f"," ","T","r","u","s","t","e","e","s">>,
     <<"B","o","a","r","d"," ","o","f"," ","T","r","u","s","t","e","e">>, <<"C","h","i","e","f"," ","J","u","s","t","i","c","e">>, <<"D","i","s","t"," ","J","u","d","g","e">>, <<"T","a","x"," ","R","a","t","e"," ","E","l","e","c","t","i","o","n">>,
     <<"P","r","o","p","o","s","i","t","i","o","n">>}

electionware2_skip_terms ==
    {<<"V","o","t","e"," ","F","o","r">>, <<"T","O","T","A","L">>, <<"A","b","s","e","n","t","e","e">>, <<"E","a","r","l","y">>, <<"E","l","e","c","t","i","o","n">>, <<"V","o","t","i","n","g">>, <<"D","a","y">>,
     <<"T","o","t","a","l"," ","V","o","t","e","s"," ","C","a","s","t">>, <<"N","o","t"," ","A","s","s","i","g","n","e","d">>, <<"C","o","n","t","e","s","t"," ","T","o","t","a","l","s">>, <<"W","r","i","t","e","-","I","n",":">>,
     <<"V","o","t","e","r"," ","T","u","r","n","o","u","t">>}

\* The words that keep a short line from being taken as a precinct header.
electionware2_header_terms ==
    {<<"s","t","a","t","i","s","t","i","c","s">>, <<"t","o","t","a","l">>, <<"a","b","s","e","n","t","e","e">>, <<"e","a","r","l","y">>, <<"v","o","t","i","n","g">>, <<"d","a","y">>, <<"v","o","t","e"," ","f","o","r">>,
     <<"o","v","e","r","v","o","t","e","s">>, <<"u","n","d","e","r","v","o","t","e","s">>}

electionware2_name_terms == {<<"t","o","t","a","l">>, <<"v","o","t","e"," ","f","o","r">>, <<"s","t","a","t","i","s","t","i","c","s">>, <<"r","e","g","i","s","t","e","r","e","d">>}

\* re.match(r'^Pct\s*#\s*(\d+)\s+(.+)$', line) for a line that starts "Pct #".
electionware2_precinct_match(l) ==
    LET t == LStrip(Drop(l, 5))
        precinct_num == Run(t, DigitSet)
        after == Drop(t, Len(precinct_num))
    IN  IF precinct_num # <<>> /\ after # <<>> /\ IsSpace(Head(after))
        THEN [ok |-> TRUE,
              name |-> <<"P","c","t"," ","#">> \o precinct_num \o <<" ">> \o LStrip(after)]
        ELSE [ok |-> FALSE, name |-> <<>>]

\* re.match(r'^[A-Za-z].+?\s+\d+\s+\d+\s+\d+\s+\d+$', line)
electionware2_looks_like_row(l) ==
    LET tf == TailFields(l, 4, DigitSet)
    IN  tf.ok /\ Len(tf.head) >= 3 /\ tf.head[1] \in Letters

\* The standalone-header heuristic, tried while no precinct is current.
electionware2_potential_header(st, l) ==
    /\ Len(SplitWs(l)) <= 4
    /\ ~\E term \in electionware2_header_terms : Contains(Lower(l), term)
    /\ ~(Len(l) >= 4 /\ SubSeq(l, 1, 3) \in PartyCodes /\ IsSpace(l[4]))
    /\ ~(StartsWith(l, <<"F","o","r"," ">>) \/ StartsWith(l, <<"A","g","a","i","n","s","t"," ">>))
    /\ ~electionware2_looks_like_row(l)
    /\ st.current_precinct = None

\* The candidate pattern, with [\d,]+ fields, and the append that follows it.
electionware2_candidate_match(l) == CandidateMatch(l, PartyCodes, DigitComma)

\* re.match(r'^([A-Za-z][^0-9]+?)\s+(\d+)\s+(\d+)\s+(\d+)\s+(\d+)$', line);
\* name is group(1).strip().
electionware2_nonpartisan_match(l) ==
    LET tf == TailFields(l, 4, DigitSet)
        H == tf.head
    IN  IF /\ tf.ok /\ H[1] \in Letters
           /\ \A i \in 1..Len(H) : H[i] \notin DigitSet
           /\ (Len(RStrip(H)) >= 2 \/ Len(H) >= 3)
        THEN [ok |-> TRUE, name |-> Strip(H), groups |-> tf.groups]
        ELSE [ok |-> FALSE, name |-> <<>>, groups |-> <<>>]

\* re.match(r'^(For|Against)\s+(\d+)\s+(\d+)\s+(\d+)\s+(\d+)$', line)
electionware2_prop_match(l) ==
    LET tf == TailFields(l, 4, DigitSet)
    IN  IF tf.ok /\ RStrip(tf.head) \in {<<"F","o","r">>, <<"A","g","a","i","n","s","t">>}
        THEN [ok |-> TRUE, name |-> RStrip(tf.head), groups |-> tf.groups]
        ELSE [ok |-> FALSE, name |-> <<>>, groups |-> <<>>]

\* A row from a match of four count fields: total, absentee, early, election day.
electionware2_row(st, county, party, candidate, groups) ==
    candidate_row(st, county, electionware2_normalize_office_name(st.current_office),
                  party, candidate, Num(groups[1]), Num(groups[2]), Num(groups[3]),
                  Num(groups[4]))

\* The rows of a line with the non-partisan rule applied under any office.
electionware2_rows_any_office(st, l, county) ==
    LET candidate_match == electionware2_candidate_match(l)
        nonpartisan_match == electionware2_nonpartisan_match(l)
        prop_match == electionware2_prop_match(l)
    IN  IF candidate_match.ok
        THEN IF AllNum(candidate_match.groups)
                /\ ~StartsWith(candidate_match.name, <<"W","r","i","t","e","-","I","n",":">>)
             THEN electionware2_row(st, county, candidate_match.party,
                                    candidate_match.name, candidate_match.groups)
             ELSE st
        ELSE IF nonpartisan_match.ok
        THEN IF \E term \in electionware2_name_terms :
                    Contains(Lower(nonpartisan_match.name), term)
             THEN st
             ELSE electionware2_row(st, county, <<>>, nonpartisan_match.name,
                                    nonpartisan_match.groups)
        ELSE IF (StartsWith(l, <<"F","o","r"," ">>) \/ StartsWith(l, <<"A","g","a","i","n","s","t"," ">>)) /\ prop_match.ok
        THEN electionware2_row(st, county, <<>>, prop_match.name, prop_match.groups)
        ELSE st

\* The part of the loop body after the skip terms: partisan candidates,
\* non-partisan candidates, proposition choices.
electionware2_rows(st, l, county) ==
    LET candidate_match == electionware2_candidate_match(l)
        nonpartisan_match == electionware2_nonpartisan_match(l)
        prop_match == electionware2_prop_match(l)
    IN  IF candidate_match.ok
        THEN IF AllNum(candidate_match.groups)
                /\ ~StartsWith(candidate_match.name, <<"W","r","i","t","e","-","I","n",":">>)
             THEN electionware2_row(st, county, candidate_match.party,
                                    candidate_match.name, candidate_match.groups)
             ELSE st
        ELSE IF nonpartisan_match.ok
                /\ (Contains(st.current_office, <<"B","o","a","r","d">>)
                    \/ Contains(st.current_office, <<"P","r","o","p","o","s","i","t","i","o","n">>))
        THEN IF \E term \in electionware2_name_terms :
                    Contains(Lower(nonpartisan_match.name), term)
             THEN st
             ELSE electionware2_row(st, county, <<>>, nonpartisan_match.name,
                                    nonpartisan_match.groups)
        ELSE IF (StartsWith(l, <<"F","o","r"," ">>) \/ StartsWith(l, <<"A","g","a","i","n","s","t"," ">>)) /\ prop_match.ok
        THEN electionware2_row(st, county, <<>>, prop_match.name, prop_match.groups)
        ELSE st

\* One pass of the loop of parse_election_data over a line.
electionware2_line(st, raw, county) ==
    LET l == Strip(raw)
    IN  IF l = <<>> THEN st
        ELSE IF StartsWith(l, <<"P","c","t"," ","#">>) /\ electionware2_precinct_match(l).ok
        THEN [st EXCEPT !.current_precinct = electionware2_precinct_match(l).name]
        ELSE IF EndsWith(l, <<" ","I","S","D">>) \/ EndsWith(l, <<" ","C","I","S","D">>)
        THEN [st EXCEPT !.current_precinct = l]
        ELSE IF electionware2_potential_header(st, l)
        THEN [st EXCEPT !.current_precinct = l]
        ELSE IF st.current_precinct = None THEN st
        ELSE IF l = <<"S","t","a","t","i","s","t","i","c","s">>
                \/ (Contains(l, <<"T","O","T","A","L">>) /\ Contains(l, <<"A","b","s","e","n","t","e","e">>) /\ Contains(l, <<"E","a","r","l","y">>))
        THEN st
        ELSE IF Contains(l, <<"R","e","g","i","s","t","e","r","e","d"," ","V","o","t","e","r","s"," ","-"," ","T","o","t","a","l">>)
        THEN registered_voters_row(st, l, county)
        ELSE IF Contains(l, <<"B","a","l","l","o","t","s"," ","C","a","s","t"," ","-"," ","T","o","t","a","l">>)
        THEN ballots_row(st, l, county, <<"B","a","l","l","o","t","s"," ","C","a","s","t"," ","-"," ","T","o","t","a","l">>, <<"B","a","l","l","o","t","s"," ","C","a","s","t">>,
                         <<"_","b","a","l","l","o","t","s">>, electionware_cols)
        ELSE IF Contains(l, <<"B","a","l","l","o","t","s"," ","C","a","s","t"," ","-"," ","B","l","a","n","k">>)
        THEN ballots_row(st, l, county, <<"B","a","l","l","o","t","s"," ","C","a","s","t"," ","-"," ","B","l","a","n","k">>, <<"B","a","l","l","o","t","s"," ","C","a","s","t"," ","-"," ","B","l","a","n","k">>,
                         <<"_","b","l","a","n","k">>, electionware_cols)
        ELSE IF StartsWith(l, <<"O","v","e","r","v","o","t","e","s">>) /\ st.current_office # None
        THEN over_under_row(st, l, county, <<"O","v","e","r","v","o","t","e","s">>, <<"O","v","e","r"," ","V","o","t","e","s">>,
                            electionware2_normalize_office_name(st.current_office),
                            electionware_cols)
        ELSE IF StartsWith(l, <<"U","n","d","e","r","v","o","t","e","s">>) /\ st.current_office # None
        THEN over_under_row(st, l, county, <<"U","n","d","e","r","v","o","t","e","s">>, <<"U","n","d","e","r"," ","V","o","t","e","s">>,
                            electionware2_normalize_office_name(st.current_office),
                            electionware_cols)
        ELSE IF \E indicator \in electionware2_office_indicators : Contains(l, indicator)
        THEN [st EXCEPT !.current_office = l,
                        !.district = FirstDistrict(l, <<<<<<"D","i","s","t">>>>, <<<<"P","l","a","c","e">>>>, <<<<"P","l">>>>,
                                                        <<<<"P","c","t">>>>>>)]
        ELSE IF st.current_office = None THEN st
        ELSE IF \E skip_term \in electionware2_skip_terms : Contains(l, skip_term) THEN st
        ELSE electionware2_rows(st, l, county)

\* ---------------------------------------------------------------- collin.py
collin_normalize_office_name(office_text) ==
    LET office == Strip(office_text)
    IN  IF Contains(office, <<"P","r","e","s","i","d","e","n","t","/","V","i","c","e"," ","P","r","e","s","i","d","e","n","t">>)
           \/ Contains(office, <<"P","r","e","s","i","d","e","n","t"," ","a","n","d"," ","V","i","c","e"," ","P","r","e","s","i","d","e","n","t">>) THEN <<"P","r","e","s","i","d","e","n","t">>
        ELSE IF Contains(office, <<"U","n","i","t","e","d"," ","S","t","a","t","e","s"," ","S","e","n","a","t","o","r">>) \/ Contains(office, <<"U",".","S","."," ","S","e","n","a","t","o","r">>)
        THEN <<"U",".","S","."," ","S","e","n","a","t","e">>
        ELSE IF Contains(office, <<"U","n","i","t","e","d"," ","S","t","a","t","e","s"," ","R","e","p","r","e","s","e","n","t","a","t","i","v","e">>)
                \/ Contains(office, <<"U",".","S","."," ","R","e","p","r","e","s","e","n","t","a","t","i","v","e">>) THEN <<"U",".","S","."," ","H","o","u","s","e">>
        ELSE IF Contains(office, <<"S","t","a","t","e"," ","R","e","p","r","e","s","e","n","t","a","t","i","v","e">>) THEN <<"S","t","a","t","e"," ","R","e","p","r","e","s","e","n","t","a","t","i","v","e">>
        ELSE IF Contains(office, <<"S","t","a","t","e"," ","S","e","n","a","t","o","r">>) THEN <<"S","t","a","t","e"," ","S","e","n","a","t","o","r">>
        ELSE IF Contains(office, <<"R","a","i","l","r","o","a","d"," ","C","o","m","m","i","s","s","i","o","n","e","r">>) THEN <<"R","a","i","l","r","o","a","d"," ","C","o","m","m","i","s","s","i","o","n","e","r">>
        ELSE IF Contains(office, <<"J","u","s","t","i","c","e",","," ","S","u","p","r","e","m","e"," ","C","o","u","r","t">>) THEN office
        ELSE IF Contains(office, <<"J","u","d","g","e",",">>) \/ Contains(office, <<"J","u","s","t","i","c","e",",">>)
                \/ Contains(office, <<"P","r","e","s","i","d","i","n","g"," ","J","u","d","g","e">>) \/ Contains(office, <<"D","i","s","t","r","i","c","t"," ","J","u","d","g","e">>)
        THEN office
        ELSE IF Contains(office, <<"M","e","m","b","e","r",","," ","S","t","a","t","e"," ","B","o","a","r","d"," ","o","f"," ","E","d","u","c","a","t","i","o","n">>)
                \/ Contains(office, <<"M","e","m","b","e","r",","," ","S","t","a","t","e"," ","B","o","E">>) THEN <<"S","t","a","t","e"," ","B","o","a","r","d"," ","o","f"," ","E","d","u","c","a","t","i","o","n">>
        ELSE IF Contains(office, <<"C","h","i","e","f"," ","J","u","s","t","i","c","e">>) THEN office
        ELSE IF Contains(office, <<"C","o","u","n","t","y">>) THEN office
        ELSE IF Contains(office, <<"S","h","e","r","i","f","f">>) THEN <<"S","h","e","r","i","f","f">>
        ELSE office

\* One appended record of the Collin parser, under the current office.
collin_row(st, county, party, candidate, votes, election_day, early_voting, ballot_by_mail, provisional, limited) ==
    [st EXCEPT !.data = Append(st.data,
        [county |-> county, precinct |-> st.current_precinct,
         office |-> collin_normalize_office_name(st.current_office),
         district |-> st.district, party |-> party, candidate |-> candidate,
         votes |-> votes, election_day |-> election_day, early_voting |-> early_voting,
         ballot_by_mail |-> ballot_by_mail, provisional |-> provisional,
         limited |-> limited])]

collin_office_indicators ==
    {<<"P","r","e","s","i","d","e","n","t","/","V","i","c","e"," ","P","r","e","s","i","d","e","n","t">>, <<"U","n","i","t","e","d"," ","S","t","a","t","e","s"," ","S","e","n","a","t","o","r">>, <<"U","n","i","t","e","d"," ","S","t","a","t","e","s"," ","R","e","p","r","e","s","e","n","t","a","t","i","v","e">>,
     <<"R","a","i","l","r","o","a","d"," ","C","o","m","m","i","s","s","i","o","n","e","r">>, <<"J","u","s","t","i","c","e",","," ","S","u","p","r","e","m","e"," ","C","o","u","r","t">>, <<"P","r","e","s","i","d","i","n","g"," ","J","u","d","g","e">>,
     <<"J","u","d","g","e",","," ","C","o","u","r","t"," ","o","f"," ","C","r","i","m","i","n","a","l"," ","A","p","p","e","a","l","s">>, <<"M","e","m","b","e","r",","," ","S","t","a","t","e"," ","B","o","a","r","d"," ","o","f"," ","E","d","u","c","a","t","i","o","n">>,
     <<"S","t","a","t","e"," ","S","e","n","a","t","o","r">>, <<"S","t","a","t","e"," ","R","e","p","r","e","s","e","n","t","a","t","i","v","e">>, <<"C","h","i","e","f"," ","J","u","s","t","i","c","e">>,
     <<"J","u","s","t","i","c","e",","," ","5","t","h"," ","C","o","u","r","t"," ","o","f"," ","A","p","p","e","a","l","s">>, <<"D","i","s","t","r","i","c","t"," ","J","u","d","g","e">>, <<"J","u","d","g","e",","," ","C","o","u","n","t","y"," ","P","r","o","b","a","t","e"," ","C","o","u","r","t">>,
     <<"S","h","e","r","i","f","f">>, <<"C","o","u","n","t","y"," ","T","a","x"," ","A","s","s","e","s","s","o","r","-","C","o","l","l","e","c","t","o","r">>, <<"C","o","u","n","t","y"," ","C","o","m","m","i","s","s","i","o","n","e","r">>, <<"C","o","n","s","t","a","b","l","e">>,
     <<"P","r","o","p","o","s","i","t","i","o","n">>}

\* The terms that keep a line with an indicator from being an office header.
collin_not_office_terms ==
    {<<"V","o","t","e"," ","F","o","r">>, <<"T","O","T","A","L">>, <<"R","e","p"," ">>, <<"D","e","m"," ">>, <<"L","i","b"," ">>, <<"G","r","n"," ">>, <<"W","r","i","t","e","-","I","n">>, <<"Y","E","S">>, <<"N","O">>}

collin_skip_terms ==
    {<<"V","o","t","e"," ","F","o","r">>, <<"T","O","T","A","L">>, <<"V","O","T","E"," ","%">>, <<"E","l","e","c","t","i","o","n"," ","D","a","y">>, <<"E","a","r","l","y"," ","V","o","t","i","n","g">>, <<"B","a","l","l","o","t"," ","b","y"," ","m","a","i","l">>,
     <<"P","r","o","v","i","s","i","o","n","a","l">>, <<"L","i","m","i","t","e","d">>, <<"C","o","n","t","e","s","t"," ","T","o","t","a","l","s">>}

collin_codes == {<<"R","e","p">>, <<"D","e","m">>, <<"L","i","b">>, <<"G","r","n">>, <<"I","N","D">>}

\* A token that is [\d.]+% from its first to its last character.
IsPercent(tok) ==
    Len(tok) >= 2 /\ tok[Len(tok)] = "%" /\ AllIn(SubSeq(tok, 1, Len(tok) - 1), DigitDot)

\* The position in s of the first character of its j-th token.
RECURSIVE TokenStart(_, _)
TokenStart(s, j) ==
    LET t == LStrip(s)
        lead == Len(s) - Len(t)
    IN  IF j = 1 THEN lead + 1
        ELSE lead + Len(FirstToken(t)) + TokenStart(Drop(t, Len(FirstToken(t))), j - 1)

\* "Overvotes 0 0 0 0 0 0" and "Undervotes 10 2 8 0 0 0": the first six
\* runs of digits of the line.
collin_over_under(st, l, county, candidate) ==
    LET numbers == FindAll(l, DigitSet)
    IN  IF Len(numbers) >= 6
        THEN collin_row(st, county, <<>>, candidate, IntOf(numbers[1]), IntOf(numbers[2]),
                        IntOf(numbers[3]), IntOf(numbers[4]), IntOf(numbers[5]),
                        IntOf(numbers[6]))
        ELSE st

\* re.search(candidate_pattern, line), the pattern being
\* ^\s*(Rep|Dem|Lib|Grn|IND)\s+(.+?)\s+([\d,]+)\s+[\d.]+%(\s+([\d,]+)){5}
\* The lazy name ends before the first token from which a count, a
\* percentage and five counts follow; the last count is the run of [\d,]
\* its token starts with.  name is group(2).strip().
collin_candidate_match(l) ==
    LET T == SplitWs(l)
        fits == {j \in 2..(Len(T) - 6) :
                    /\ AllIn(T[j], DigitComma)
                    /\ IsPercent(T[j + 1])
                    /\ \A k \in (j + 2)..(j + 5) : AllIn(T[k], DigitComma)
                    /\ Run(T[j + 6], DigitComma) # <<>>
                    /\ TokenStart(l, j) - 4 >= 3}
    IN  IF Len(l) >= 4 /\ SubSeq(l, 1, 3) \in collin_codes /\ IsSpace(l[4]) /\ fits # {}
        THEN LET j == CHOOSE j \in fits : \A k \in fits : j <= k
             IN  [ok |-> TRUE, party |-> SubSeq(l, 1, 3),
                  name |-> Strip(SubSeq(l, 4, TokenStart(l, j) - 1)),
                  groups |-> <<T[j], T[j + 2], T[j + 3], T[j + 4], T[j + 5],
                               Run(T[j + 6], DigitComma)>>]
        ELSE [ok |-> FALSE, party |-> <<>>, name |-> <<>>, groups |-> <<>>]

\* candidate_name = 'Write-In Totals' if it starts with 'Write-In'
collin_name(candidate_name) ==
    IF StartsWith(candidate_name, <<"W","r","i","t","e","-","I","n">>) THEN <<"W","r","i","t","e","-","I","n"," ","T","o","t","a","l","s">> ELSE candidate_name

\* The first fallback: the party, then every run of [\d,] of the rest of the
\* line; the name is what precedes the first run, the second run is taken
\* for the percentage and skipped.  ok is FALSE when there are fewer than six
\* runs or an int() raises.
collin_simple_fallback(st, l, county) ==
    LET rest == LStrip(Drop(l, 3))
        numbers == FindAll(rest, DigitComma)
        candidate_name == Strip(Until(rest, DigitComma))
        used == <<numbers[1], numbers[3], numbers[4], numbers[5], numbers[6]>>
                  \o (IF Len(numbers) > 6 THEN <<numbers[7]>> ELSE <<>>)
    IN  IF Len(numbers) >= 6 /\ AllNum(used)
        THEN [ok |-> TRUE,
              st |-> collin_row(st, county, SubSeq(l, 1, 3), collin_name(candidate_name),
                                Num(numbers[1]), Num(numbers[3]), Num(numbers[4]),
                                Num(numbers[5]), Num(numbers[6]),
                                IF Len(numbers) > 6 THEN Num(numbers[7]) ELSE 0)]
        ELSE [ok |-> FALSE, st |-> st]

\* The second fallback, tried when the first found six runs and raised: the
\* tokens around the first one that ends with '%'.
collin_percent_fallback(st, l, county) ==
    LET numbers == FindAll(LStrip(Drop(l, 3)), DigitComma)
        parts == SplitWs(l)
        with_pct == {idx \in 1..Len(parts) : EndsWith(parts[idx], <<"%">>)}
        pct_idx == IF with_pct = {} THEN 0
                   ELSE CHOOSE idx \in with_pct : \A k \in with_pct : idx <= k
        candidate_name == Join(SubSeq(parts, 2, pct_idx - 2))
    IN  IF /\ Len(numbers) >= 6 /\ Len(parts) >= 8
           /\ pct_idx > 1
           /\ pct_idx + 5 <= Len(parts)
           /\ AllNum(<<parts[pct_idx - 1]>> \o SubSeq(parts, pct_idx + 1, pct_idx + 5))
        THEN [ok |-> TRUE,
              st |-> collin_row(st, county, parts[1], collin_name(candidate_name),
                                Num(parts[pct_idx - 1]), Num(parts[pct_idx + 1]),
                                Num(parts[pct_idx + 2]), Num(parts[pct_idx + 3]),
                                Num(parts[pct_idx + 4]), Num(parts[pct_idx + 5]))]
        ELSE [ok |-> FALSE, st |-> st]

\* re.match(prop_pattern, line), the pattern being
\* ^\s*(YES|NO)\s+([\d,]+)\s+[\d.]+%(\s+([\d,]+)){5}$
collin_prop_match(l) ==
    LET T == SplitWs(l)
    IN  /\ Len(T) = 8
        /\ T[1] \in {<<"Y","E","S">>, <<"N","O">>}
        /\ AllIn(T[2], DigitComma)
        /\ IsPercent(T[3])
        /\ \A k \in 4..8 : AllIn(T[k], DigitComma)

\* The part of the loop body after the Overvotes and Undervotes lines.  No
\* line reaches uncontested_pattern: what it matches, candidate_pattern
\* matches, and that branch ends the pass.
collin_rows(st, l, county) ==
    LET candidate_match == collin_candidate_match(l)
        T == SplitWs(l)
        simple == collin_simple_fallback(st, l, county)
        percent == collin_percent_fallback(st, l, county)
    IN  IF (\E code \in collin_codes : StartsWith(l, code \o <<" ">>))
           /\ ~candidate_match.ok /\ simple.ok
        THEN simple.st
        ELSE IF (\E code \in collin_codes : StartsWith(l, code \o <<" ">>))
                /\ ~candidate_match.ok /\ percent.ok
        THEN percent.st
        ELSE IF candidate_match.ok
        THEN IF AllNum(candidate_match.groups)
             THEN collin_row(st, county, candidate_match.party,
                             collin_name(candidate_match.name),
                             Num(candidate_match.groups[1]), Num(candidate_match.groups[2]),
                             Num(candidate_match.groups[3]), Num(candidate_match.groups[4]),
                             Num(candidate_match.groups[5]), Num(candidate_match.groups[6]))
             ELSE st
        ELSE IF collin_prop_match(l) /\ Contains(st.current_office, <<"P","r","o","p","o","s","i","t","i","o","n">>)
        THEN IF AllNum(<<T[2]>> \o SubSeq(T, 4, 8))
             THEN collin_row(st, county, <<>>, T[1], Num(T[2]), Num(T[4]), Num(T[5]),
                             Num(T[6]), Num(T[7]), Num(T[8]))
             ELSE st
        ELSE st

\* One pass of the loop of parse_election_data over a line.
collin_line(st, raw, county) ==
    LET l == Strip(raw)
    IN  IF l = <<>> THEN st
        ELSE IF StartsWith(l, <<"P","C","T"," ">>) /\ AllIn(LStrip(Drop(l, 3)), DigitSet)
        THEN [st EXCEPT !.current_precinct = <<"P","C","T"," ">> \o LStrip(Drop(l, 3))]
        ELSE IF st.current_precinct = None THEN st
        ELSE IF /\ \E indicator \in collin_office_indicators : Contains(l, indicator)
                /\ ~\E skip_term \in collin_not_office_terms : Contains(l, skip_term)
        THEN [st EXCEPT !.current_office = l,
                        !.district = FirstDistrict(l, <<<<<<"D","i","s","t","r","i","c","t">>>>, <<<<"P","l","a","c","e">>>>,
                                                        <<<<"P","r","e","c","i","n","c","t">>, <<"N","o",".">>>>>>)]
        ELSE IF st.current_office = None THEN st
        ELSE IF \E skip_term \in collin_skip_terms : Contains(l, skip_term) THEN st
        ELSE IF StartsWith(l, <<"O","v","e","r","v","o","t","e","s">>) THEN collin_over_under(st, l, county, <<"O","v","e","r"," ","V","o","t","e","s">>)
        ELSE IF StartsWith(l, <<"U","n","d","e","r","v","o","t","e","s">>)
        THEN collin_over_under(st, l, county, <<"U","n","d","e","r"," ","V","o","t","e","s">>)
        ELSE collin_rows(st, l, county)

\* -------------------------------------------------------------- greenbox.py
greenbox_normalize_office_name(office_text) ==
    LET office == Strip(office_text)
    IN  IF Contains(office, <<"P","r","e","s","i","d","e","n","t"," ","a","n","d"," ","V","i","c","e"," ","P","r","e","s","i","d","e","n","t">>)
           \/ Contains(office, <<"P","r","e","s","i","d","e","n","t"," ","a","n","d"," ","V","i","c","e","-","P","r","e","s","i","d","e","n","t">>)
           \/ Contains(office, <<"P","r","e","s","i","d","e","n","t","/","V","i","c","e"," ","P","r","e","s","i","d","e","n","t">>)
           \/ Contains(office, <<"P","r","e","s","i","d","e","n","t","/","V","i","c","e","-","P","r","e","s","i","d","e","n","t">>) THEN <<"P","r","e","s","i","d","e","n","t">>
        ELSE IF Contains(office, <<"U","n","i","t","e","d"," ","S","t","a","t","e","s"," ","S","e","n","a","t","o","r">>) \/ Contains(office, <<"U",".","S","."," ","S","e","n","a","t","o","r">>)
        THEN <<"U",".","S","."," ","S","e","n","a","t","e">>
        ELSE IF Contains(office, <<"U","n","i","t","e","d"," ","S","t","a","t","e","s"," ","R","e","p","r","e","s","e","n","t","a","t","i","v","e">>)
                \/ Contains(office, <<"U",".","S","."," ","R","e","p","r","e","s","e","n","t","a","t","i","v","e">>) THEN <<"U",".","S","."," ","H","o","u","s","e">>
        ELSE IF Contains(office, <<"S","t","a","t","e"," ","S","e","n","a","t","o","r">>) THEN <<"S","t","a","t","e"," ","S","e","n","a","t","e">>
        ELSE IF Contains(office, <<"S","t","a","t","e"," ","R","e","p","r","e","s","e","n","t","a","t","i","v","e">>) /\ ~Contains(office, <<"U","n","e","x","p","i","r","e","d"," ","T","e","r","m">>)
        THEN <<"S","t","a","t","e"," ","R","e","p","r","e","s","e","n","t","a","t","i","v","e">>
        ELSE IF Contains(office, <<"C","h","i","e","f"," ","J","u","s","t","i","c","e",","," ","1","3","t","h"," ","C","o","u","r","t"," ","o","f"," ","A","p","p","e","a","l","s">>)
        THEN <<"C","h","i","e","f"," ","J","u","s","t","i","c","e",","," ","1","3","t","h"," ","C","o","u","r","t"," ","o","f"," ","A","p","p","e","a","l","s"," ","D","i","s","t","r","i","c","t">>
        ELSE IF Contains(office, <<"C","h","i","e","f"," ","J","u","s","t","i","c","e",","," ","1","0","t","h"," ","C","o","u","r","t"," ","o","f"," ","A","p","p","e","a","l","s">>)
        THEN <<"C","h","i","e","f"," ","J","u","s","t","i","c","e",","," ","1","0","t","h"," ","C","o","u","r","t"," ","o","f"," ","A","p","p","e","a","l","s"," ","D","i","s","t","r","i","c","t">>
        ELSE IF Contains(office, <<"C","h","i","e","f"," ","J","u","s","t","i","c","e",","," ","1","1","t","h"," ","C","o","u","r","t"," ","o","f"," ","A","p","p","e","a","l","s"," ","D","i","s","t","r","i","c","t">>)
        THEN <<"C","h","i","e","f"," ","J","u","s","t","i","c","e",","," ","1","1","t","h"," ","C","o","u","r","t"," ","o","f"," ","A","p","p","e","a","l","s"," ","D","i","s","t","r","i","c","t">>
        ELSE office

\* office_patterns, each without its trailing [^\n]*; a '.' stands for any
\* character, and PROPOSITION is followed by a blank and a letter.
greenbox_office_patterns ==
    {<<"P","r","e","s","i","d","e","n","t"," ","a","n","d"," ","V","i","c","e"," ","P","r","e","s","i","d","e","n","t">>, <<"P","r","e","s","i","d","e","n","t"," ","a","n","d"," ","V","i","c","e","-","P","r","e","s","i","d","e","n","t">>,
     <<"P","r","e","s","i","d","e","n","t","/","V","i","c","e"," ","P","r","e","s","i","d","e","n","t">>, <<"P","r","e","s","i","d","e","n","t","/","V","i","c","e","-","P","r","e","s","i","d","e","n","t">>, <<"U","n","i","t","e","d"," ","S","t","a","t","e","s"," ","S","e","n","a","t","o","r">>,
     <<"U",".","S","."," ","S","e","n","a","t","o","r">>, <<"U","n","i","t","e","d"," ","S","t","a","t","e","s"," ","R","e","p","r","e","s","e","n","t","a","t","i","v","e">>, <<"U",".","S","."," ","R","e","p","r","e","s","e","n","t","a","t","i","v","e">>,
     <<"R","a","i","l","r","o","a","d"," ","C","o","m","m","i","s","s","i","o","n","e","r">>, <<"J","u","s","t","i","c","e">>, <<"J","u","d","g","e">>, <<"M","e","m","b","e","r">>, <<"S","t","a","t","e"," ","R","e","p","r","e","s","e","n","t","a","t","i","v","e">>,
     <<"C","h","i","e","f"," ","J","u","s","t","i","c","e",","," ","1","3","t","h"," ","C","o","u","r","t"," ","o","f"," ","A","p","p","e","a","l","s"," ","D","i","s","t","r","i","c","t">>,
     <<"C","h","i","e","f"," ","J","u","s","t","i","c","e",","," ","1","0","t","h"," ","C","o","u","r","t"," ","o","f"," ","A","p","p","e","a","l","s"," ","D","i","s","t","r","i","c","t">>,
     <<"C","h","i","e","f"," ","J","u","s","t","i","c","e",","," ","1","1","t","h"," ","C","o","u","r","t"," ","o","f"," ","A","p","p","e","a","l","s"," ","D","i","s","t","r","i","c","t">>, <<"D","i","s","t","r","i","c","t"," ","J","u","d","g","e">>,
     <<"D","i","s","t","r","i","c","t"," ","A","t","t","o","r","n","e","y">>, <<"C","o","u","n","t","y"," ">>, <<"S","h","e","r","i","f","f">>, <<"D","i","s","t","r","i","c","t"," ","C","l","e","r","k">>, <<"P","r","e","s","i","d","i","n","g"," ","J","u","d","g","e">>,
     <<"P","R","O","P","O","S","I","T","I","O","N"," ",".">>, <<"C","o","u","n","t","y"," ","A","t","t","o","r","n","e","y">>, <<"C","o","u","n","t","y"," ","C","l","e","r","k">>,
     <<"C","o","u","n","t","y"," ","T","a","x"," ","A","s","s","e","s","s","o","r","-","C","o","l","l","e","c","t","o","r">>, <<"C","o","u","n","t","y"," ","C","o","n","s","t","a","b","l","e">>, <<"C","o","n","s","t","a","b","l","e">>,
     <<"H","E","A","D","W","A","T","E","R"," ","G","R","O","U","N","D","W","A","T","E","R"," ","C","O","N","S","E","R","V","A","T","I","O","N"," ","D","I","S","T","R","I","C","T">>}

\* re.match(pattern, line, re.IGNORECASE) for one of the patterns.
greenbox_office_match(l) ==
    \E pat \in greenbox_office_patterns :
        /\ Len(pat) <= Len(l)
        /\ \A i \in 1..Len(pat) :
              IF pat[i] = "."
              THEN pat # <<"P","R","O","P","O","S","I","T","I","O","N"," ",".">> \/ l[i] \in Letters
              ELSE LowerChar(l[i]) = LowerChar(pat[i])

\* The positions where line.title() holds word: the characters agree up to
\* case and the one before is not a letter.
TitleAt(l, word) ==
    {p \in 1..(Len(l) - Len(word) + 1) :
        /\ Lower(SubSeq(l, p, p + Len(word) - 1)) = Lower(word)
        /\ (p = 1 \/ l[p - 1] \notin Letters)}

\* The district of an office header: the last number after 'District' that
\* follows whitespace (District.*\s+(\d+) on line.title()), else, when the
\* line holds 'Place', the number of the first Place\s+(\d+).
greenbox_district(l) ==
    LET dist_at == TitleAt(l, <<"D","i","s","t","r","i","c","t">>)
        after == IF dist_at = {} THEN <<>>
                 ELSE Drop(l, (CHOOSE p \in dist_at : \A q \in dist_at : p <= q) + 7)
        nums == {q \in 1..(Len(after) - 1) : IsSpace(after[q]) /\ after[q + 1] \in DigitSet}
        places == {p \in TitleAt(l, <<"P","l","a","c","e">>) :
                      /\ LStrip(Drop(l, p + 4)) # Drop(l, p + 4)
                      /\ Run(LStrip(Drop(l, p + 4)), DigitSet) # <<>>}
    IN  IF nums # {}
        THEN Run(Drop(after, CHOOSE q \in nums : \A r \in nums : r <= q), DigitSet)
        ELSE IF Contains(l, <<"P","l","a","c","e">>) /\ places # {}
        THEN Run(LStrip(Drop(l, (CHOOSE p \in places : \A q \in places : p <= q) + 4)),
                 DigitSet)
        ELSE <<>>

\* re.search of ^(\d+?(?:\s*-\s*[\w\s]+)?)\s+([\d,]+)\s+of\s+([\d,]+)\s+registered\s+voters
\* name is group(1).strip(), ballots group(2), registered group(3).
greenbox_precinct_match(l) ==
    LET T == SplitWs(l)
        digits == Run(l, DigitSet)
        rest == Drop(l, Len(digits))
        before(k) == SubSeq(rest, 1, TokenStart(l, k - 1) - 1 - Len(digits))
        form(k) ==
            \/ before(k) # <<>> /\ LStrip(before(k)) = <<>>
            \/ /\ StartsWith(LStrip(before(k)), <<"-">>)
               /\ Len(Tail(LStrip(before(k)))) >= 2
               /\ AllIn(Tail(LStrip(before(k))), Letters \cup DigitSet \cup {"_", " "})
        fits == {k \in 3..(Len(T) - 3) :
                    /\ T[k] = <<"o","f">>
                    /\ AllIn(T[k - 1], DigitComma)
                    /\ AllIn(T[k + 1], DigitComma)
                    /\ T[k + 2] = <<"r","e","g","i","s","t","e","r","e","d">>
                    /\ StartsWith(T[k + 3], <<"v","o","t","e","r","s">>)
                    /\ form(k)}
    IN  IF digits # <<>> /\ fits # {}
        THEN LET k == CHOOSE k \in fits : \A j \in fits : j <= k
             IN  [ok |-> TRUE, name |-> Strip(SubSeq(l, 1, TokenStart(l, k - 1) - 1)),
                  ballots |-> T[k - 1], registered |-> T[k + 1]]
        ELSE [ok |-> FALSE, name |-> <<>>, ballots |-> <<>>, registered |-> <<>>]

\* The precinct line: current_precinct, then, once per precinct name, the
\* Registered Voters and the Ballots Cast records.
greenbox_precinct(st, l, county) ==
    LET m == greenbox_precinct_match(l)
        named == [st EXCEPT !.current_precinct = m.name]
    IN  IF ~IsNum(m.ballots) \/ ~IsNum(m.registered) \/ m.name \in st.precinct_stats_added
        THEN named
        ELSE [named EXCEPT
                !.data = st.data \o
                    <<Record(county, m.name, <<"R","e","g","i","s","t","e","r","e","d"," ","V","o","t","e","r","s">>, <<>>, <<>>, <<>>,
                             Num(m.registered), EmptyCell, EmptyCell, EmptyCell),
                      Record(county, m.name, <<"B","a","l","l","o","t","s"," ","C","a","s","t">>, <<>>, <<>>, <<>>,
                             Num(m.ballots), EmptyCell, EmptyCell, EmptyCell)>>,
                !.precinct_stats_added = st.precinct_stats_added \cup {m.name}]

\* re.match of ^(.+?)\s+(REP|DEM|LIB|GRN|IND|\(W\))\s+([\d,]+)\s+[\d.]+%
\* with three more count and percentage pairs: the lazy name ends before the
\* first party token from which the four pairs follow.
greenbox_candidate_match(l) ==
    LET T == SplitWs(l)
        fits == {j \in 2..(Len(T) - 8) :
                    /\ T[j] \in PartyCodes \cup {<<"(","W",")">>}
                    /\ \A k \in {1, 3, 5, 7} : AllIn(T[j + k], DigitComma)
                    /\ \A k \in {2, 4, 6} : IsPercent(T[j + k])
                    /\ Run(T[j + 8], DigitDot) # <<>>
                    /\ StartsWith(Drop(T[j + 8], Len(Run(T[j + 8], DigitDot))), <<"%">>)}
    IN  IF fits # {}
        THEN LET j == CHOOSE j \in fits : \A k \in fits : j <= k
             IN  [ok |-> TRUE, party |-> T[j],
                  name |-> Strip(SubSeq(l, 1, TokenStart(l, j) - 1)),
                  groups |-> <<T[j + 1], T[j + 3], T[j + 5], T[j + 7]>>]
        ELSE [ok |-> FALSE, party |-> <<>>, name |-> <<>>, groups |-> <<>>]

\* "Undervotes: 1 0 1 2" and "Overvotes: 0 0 0 0": absentee, early,
\* election day, total are the first four runs of digits after the label.
greenbox_over_under(st, l, county, lit, candidate) ==
    LET RECURSIVE cat(_)
        cat(parts) == IF parts = <<>> THEN <<>> ELSE Head(parts) \o cat(Tail(parts))
        vote_numbers == FindAll(cat(Split(l, lit)), DigitSet)
    IN  IF Len(vote_numbers) >= 4
        THEN candidate_row(st, county, greenbox_normalize_office_name(st.current_office),
                           <<>>, candidate, IntOf(vote_numbers[4]), IntOf(vote_numbers[1]),
                           IntOf(vote_numbers[2]), IntOf(vote_numbers[3]))
        ELSE st

greenbox_skip_terms ==
    {<<"C","h","o","i","c","e"," ","P","a","r","t","y"," ","A","b","s","e","n","t","e","e"," ","V","o","t","i","n","g">>, <<"N","o","t"," ","A","s","s","i","g","n","e","d">>, <<"R","e","j","e","c","t","e","d"," ","w","r","i","t","e","-","i","n"," ","v","o","t","e","s">>,
     <<"U","n","r","e","s","o","l","v","e","d"," ","w","r","i","t","e","-","i","n"," ","v","o","t","e","s">>, <<"C","o","n","t","e","s","t"," ","T","o","t","a","l","s">>}

\* One pass of the loop of parse_election_data over a line.  The loop goes
\* on with the same line after an office header.
greenbox_line(st, raw, county) ==
    LET l == Strip(raw)
        st1 == IF greenbox_office_match(l)
               THEN [st EXCEPT !.current_office = l, !.district = greenbox_district(l)]
               ELSE st
        candidate_match == greenbox_candidate_match(l)
    IN  IF l = <<>> THEN st
        ELSE IF greenbox_precinct_match(l).ok THEN greenbox_precinct(st, l, county)
        ELSE IF st1.current_office = None \/ st1.current_precinct = None THEN st1
        ELSE IF \E term \in greenbox_skip_terms : Contains(l, term) THEN st1
        ELSE IF candidate_match.ok
        THEN IF /\ AllNum(candidate_match.groups)
                /\ ~(candidate_match.party = <<"(","W",")">> /\ Len(candidate_match.name) > 10)
             THEN candidate_row(st1, county,
                                greenbox_normalize_office_name(st1.current_office),
                                candidate_match.party, candidate_match.name,
                                Num(candidate_match.groups[4]),
                                Num(candidate_match.groups[1]),
                                Num(candidate_match.groups[2]),
                                Num(candidate_match.groups[3]))
             ELSE st1
        ELSE IF StartsWith(l, <<"C","a","s","t"," ","V","o","t","e","s",":">>) THEN st1
        ELSE IF StartsWith(l, <<"U","n","d","e","r","v","o","t","e","s",":">>)
        THEN greenbox_over_under(st1, l, county, <<"U","n","d","e","r","v","o","t","e","s",":">>, <<"U","n","d","e","r"," ","V","o","t","e","s">>)
        ELSE IF StartsWith(l, <<"O","v","e","r","v","o","t","e","s",":">>)
        THEN greenbox_over_under(st1, l, county, <<"O","v","e","r","v","o","t","e","s",":">>, <<"O","v","e","r"," ","V","o","t","e","s">>)
        ELSE st1

\* ---- the scan as state
\* The lines of a report the scan is run on, per parser.
electionware_lines ==
    {<<"P","r","e","c","i","n","c","t"," ","1">>, <<"R","e","g","i","s","t","e","r","e","d"," ","V","o","t","e","r","s"," ","-"," ","T","o","t","a","l"," ","1",",","0","5","3">>, <<"R","e","g","i","s","t","e","r","e","d"," ","V","o","t","e","r","s"," ","-"," ","T","o","t","a","l"," ","1","2">>,
     <<"B","a","l","l","o","t","s"," ","C","a","s","t"," ","-"," ","T","o","t","a","l"," ","7"," ","1"," ","4"," ","2">>, <<"S","h","e","r","i","f","f">>, <<"R","E","P"," ","J","o","h","n"," ","S","m","i","t","h"," ","1","0"," ","2"," ","5"," ","3">>,
     <<"D","E","M"," ","A","n","n"," ","L","e","e"," ","7"," ","1"," ","4"," ","2">>,
     <<"P","r","e","c","i","n","c","t"," ","2">>, <<"S","t","a","t","e"," ","R","e","p","r","e","s","e","n","t","a","t","i","v","e"," ","D","i","s","t","r","i","c","t"," ","5">>, <<"R","E","P"," ","S","h","e","r","i","f","f"," ","B","o","b"," ","5"," ","1"," ","2"," ","2">>, <<"O","v","e","r","v","o","t","e","s"," ","0"," ","0"," ","0"," ","0">>,
     <<"B","a","l","l","o","t","s"," ","C","a","s","t"," ","-"," ","T","o","t","a","l"," ",","," ","1"," ","2"," ","3">>, <<"S","t","a","t","i","s","t","i","c","s">>,
     <<"C","o","n","s","t","a","b","l","e"," ","P","c","t"," ","2">>,
     <<"D","E","M"," ","D","o","r","i","s"," ","D","a","y"," ","7"," ","1"," ","4"," ","2">>}

electionware2_lines ==
    {<<"P","c","t"," ","#"," ","1"," ","T","h","r","e","e"," ","C","o","r","n","e","r","s">>, <<"B","u","n","a"," ","I","S","D">>, <<"R","e","g","i","s","t","e","r","e","d"," ","V","o","t","e","r","s"," ","-"," ","T","o","t","a","l"," ","1",",","0","5","3">>,
     <<"R","e","g","i","s","t","e","r","e","d"," ","V","o","t","e","r","s"," ","-"," ","T","o","t","a","l"," ","1","2">>, <<"B","a","l","l","o","t","s"," ","C","a","s","t"," ","-"," ","T","o","t","a","l"," ","7"," ","1"," ","4"," ","2">>, <<"S","h","e","r","i","f","f">>,
     <<"R","E","P"," ","J","o","h","n"," ","S","m","i","t","h"," ","1","0"," ","2"," ","5"," ","3">>,
     <<"D","E","M"," ","A","n","n"," ","L","e","e"," ","7"," ","1"," ","4"," ","2">>, <<"B","o","a","r","d"," ","o","f"," ","T","r","u","s","t","e","e","s"," ","P","l","a","c","e"," ","3">>, <<"B","o","b"," ","J","o","n","e","s"," ","5"," ","1"," ","2"," ","2">>, <<"K","i","r","b","y","v","i","l","l","e">>,
     <<"R","E","P"," ","B","o","b"," ",","," ","1"," ","2"," ","3">>,
     <<"S","t","a","t","e"," ","R","e","p","r","e","s","e","n","t","a","t","i","v","e"," ","D","i","s","t","r","i","c","t"," ","5"," ","P","l","a","c","e"," ","3">>}

fort_bend_lines ==
    {<<"1","0","0","4"," ","-"," ","1">>, <<"R","e","g","i","s","t","e","r","e","d"," ","V","o","t","e","r","s"," ","-"," ","T","o","t","a","l"," ","1",",","0","5","3">>, <<"R","e","g","i","s","t","e","r","e","d"," ","V","o","t","e","r","s"," ","-"," ","T","o","t","a","l"," ","1","2">>,
     <<"B","a","l","l","o","t","s"," ","C","a","s","t"," ","-"," ","T","o","t","a","l"," ","7"," ","4"," ","1"," ","2">>, <<"S","h","e","r","i","f","f">>, <<"R","E","P"," ","J","o","h","n"," ","S","m","i","t","h"," ","1","0"," ","5","0",".","0","0","%"," ","5"," ","2"," ","3">>,
     <<"R","E","P"," ","J","o","h","n"," ","S","m","i","t","h"," ","1","0"," ","5"," ","5">>,
     <<"1","0","0","6">>, <<"D","E","M"," ","A","n","n"," ","L","e","e"," ","7"," ","3","5",".","0","0","%"," ","4"," ","1"," ","2">>, <<"W","r","i","t","e","-","I","n"," ","T","o","t","a","l","s"," ","1","2"," ","0",".","4","7","%"," ","3"," ","0"," ","9">>,
     <<"R","e","g","i","s","t","e","r","e","d"," ","V","o","t","e","r","s"," ","-"," ","T","o","t","a","l"," ",",">>,
     <<"S","t","a","t","e"," ","R","e","p","r","e","s","e","n","t","a","t","i","v","e"," ","D","i","s","t","r","i","c","t"," ","5"," ","P","l","a","c","e"," ","3">>}

collin_lines ==
    {<<"P","C","T"," ","0","0","1">>, <<"S","h","e","r","i","f","f">>, <<"R","e","p"," ","J","o","h","n"," ","S","m","i","t","h"," ","1","0"," ","5","0",".","0","0","%"," ","5"," ","2"," ","3"," ","0"," ","0">>,
     <<"D","e","m"," ","A","n","n"," ","L","e","e"," ","7"," ","3","5",".","0","0","%"," ","4"," ","1"," ","2"," ","0"," ","0">>, <<"R","e","p"," ","A"," ","1","0"," ","5","0",".","0","0","%"," ","5"," ","5"," ","5">>, <<"R","e","p"," ","A"," ","1","0"," ","5"," ","5">>,
     <<"U","n","d","e","r","v","o","t","e","s"," ","1"," ","0"," ","1"," ","0"," ","0"," ","0">>,
     <<"P","C","T"," ","0","0","2">>, <<"P","r","o","p","o","s","i","t","i","o","n"," ","A">>, <<"Y","E","S"," ","1","0"," ","5","0",".","0","0","%"," ","5"," ","2"," ","3"," ","0"," ","0">>,
     <<"R","e","p"," ","A"," ","1","0"," ","5","0",".","0","0","%"," ","1"," ","2"," ","3"," ","4"," ",",">>, <<"S","t","a","t","i","s","t","i","c","s">>,
     <<"S","t","a","t","e"," ","R","e","p","r","e","s","e","n","t","a","t","i","v","e"," ","D","i","s","t","r","i","c","t"," ","5"," ","P","l","a","c","e"," ","3">>}

greenbox_lines ==
    {<<"1","0","1"," ","2","5","0"," ","o","f"," ","1",",","0","5","3"," ","r","e","g","i","s","t","e","r","e","d"," ","v","o","t","e","r","s">>,
     <<"1","0","2"," ","-"," ","N","o","r","t","h"," ","7"," ","o","f"," ","1","2"," ","r","e","g","i","s","t","e","r","e","d"," ","v","o","t","e","r","s">>,
     <<"1","0","1"," ",","," ","o","f"," ","1",",","0","5","3"," ","r","e","g","i","s","t","e","r","e","d"," ","v","o","t","e","r","s">>,
     <<"S","h","e","r","i","f","f">>,
     <<"S","t","a","t","e"," ","R","e","p","r","e","s","e","n","t","a","t","i","v","e"," ","D","i","s","t","r","i","c","t"," ","5"," ","P","l","a","c","e"," ","3">>,
     <<"C","o","u","n","t","y"," ","J","u","d","g","e"," ","P","l","a","c","e"," ","2">>,
     <<"J","o","h","n"," ","S","m","i","t","h"," ","R","E","P"," ","2"," ","2","0",".","0","0","%"," ","5"," ","5","0",".","0","0","%"," ","3"," ","3","0",".","0","0","%"," ","1","0"," ","5","5",".","0","0","%">>,
     <<"A","n","n"," ","L","e","e"," ","D","E","M"," ","1"," ","1","4",".","0","0","%"," ","4"," ","5","7",".","0","0","%"," ","2"," ","2","9",".","0","0","%"," ","7"," ","3","8",".","0","0","%">>,
     <<"C","o","u","n","t","y"," ","J","u","d","g","e"," ","R","E","P"," ","1"," ","1","0",".","0","0","%"," ","2"," ","2","0",".","0","0","%"," ","2"," ","2","0",".","0","0","%"," ","5"," ","5","0",".","0","0","%">>,
     <<"U","n","d","e","r","v","o","t","e","s",":"," ","1"," ","0"," ","1"," ","2">>}

\* No CSV written.
NoCsv == [done |-> FALSE, written |-> FALSE, rows |-> <<>>]

\* No office normaliser has been called yet.
NotNormalized == [by |-> "none", office |-> None, district |-> None]

\* The variables of the office normalisers while another program runs.
OfficeIdle ==
    /\ raw_office = <<>>
    /\ normalized = NotNormalized

\* The working directory holds no detail.xml.
NoDetailXml ==
    [exists |-> FALSE, results |-> <<>>,
     turnout |-> [readable |-> FALSE, present |-> FALSE, precincts |-> <<>>,
                  vote_types |-> <<>>]]

\* download_county_files is not running.
BatchIdle ==
    /\ detail_xml = NoDetailXml
    /\ scans = <<>>
    /\ no_xml = <<>>

\* statewide_results is not running.
StatewideIdle == statewide = [at |-> "idle", fed |-> 0, results |-> <<>>, rows |-> <<>>]

\* The variables of the line parsers while another program runs.
ScanIdle ==
    /\ parser = "none"
    /\ current_precinct = None
    /\ current_office = None
    /\ district = <<>>
    /\ precinct_stats_added = {}
    /\ data = <<>>
    /\ line = None
    /\ scanned = 0
    /\ csv = NoCsv

\* ------------------------------------------------------------ precinct_results
\* Bound on the number of results the contest-tree reader yields for one document.
MaxResults == 2


excluded_vote_types == {<<"N","u","m","b","e","r"," ","o","f"," ","P","r","e","c","i","n","c","t","s">>, <<"O","v","e","r","v","o","t","e","s">>, <<"U","n","d","e","r","v","o","t","e","s">>}

\* A result of the contest-tree reader: vote type, choice (has_choice FALSE when
\* result.choice is None; choice_party None when the choice has no party),
\* contest text, jurisdiction name (None when result.jurisdiction is None), votes.
BaseResult ==
    [vote_type |-> <<"E","l","e","c","t","i","o","n"," ","D","a","y">>, has_choice |-> TRUE, choice_text |-> <<"J","o","h","n"," ","S","m","i","t","h">>,
     choice_party |-> None, contest_text |-> <<"S","h","e","r","i","f","f">>, jurisdiction |-> <<"P","1">>, votes |-> 1]

Results ==
    {BaseResult,
     [BaseResult EXCEPT !.votes = 2],
     [BaseResult EXCEPT !.vote_type = <<"e","l","e","c","t","i","o","n"," ","d","a","y">>, !.votes = 2],
     [BaseResult EXCEPT !.jurisdiction = <<"P","2">>],
     [BaseResult EXCEPT !.jurisdiction = None],
     [BaseResult EXCEPT !.has_choice = FALSE, !.choice_text = None],
     [BaseResult EXCEPT !.vote_type = <<"O","v","e","r","v","o","t","e","s">>],
     [BaseResult EXCEPT !.vote_type = <<"r","e","g","V","o","t","e","r","s","C","o","u","n","t","y">>],
     [BaseResult EXCEPT !.vote_type = <<"r","e","g","V","o","t","e","r","s","C","o","u","n","t","y">>, !.votes = 2],
     [BaseResult EXCEPT !.choice_text = <<"R","E","P"," ","J","a","n","e"," ","D","o","e"," ","(","I",")">>],
     [BaseResult EXCEPT !.choice_text = <<>>],
     [BaseResult EXCEPT !.contest_text = None],
     [BaseResult EXCEPT !.contest_text = <<"R","e","p","u","b","l","i","c","a","n"," ","C","h","a","i","r">>],
     [BaseResult EXCEPT !.contest_text = <<"R","e","p","u","b","l","i","c","a","n"," ","C","h","a","i","r">>, !.choice_party = <<"D","E","M">>]}

RECURSIVE Docs(_)
Docs(n) ==
    IF n = 0 THEN {<<>>}
    ELSE Docs(n - 1) \cup {Append(d, r) : d \in Docs(n - 1), r \in Results}

\* The VoterTurnout section of detail.xml as add_voter_turnout_rows reads it:
\* readable FALSE when ET.parse raises, present FALSE when there is no
\* VoterTurnout element; attributes are strings.
TurnoutP1 == [name |-> <<"P","1">>, totalVoters |-> <<"3">>, ballotsCast |-> <<"2">>]

Turnouts ==
    {[readable |-> FALSE, present |-> FALSE, precincts |-> <<>>, vote_types |-> <<>>],
     [readable |-> TRUE, present |-> FALSE, precincts |-> <<>>, vote_types |-> <<>>],
     [readable |-> TRUE, present |-> TRUE, precincts |-> <<TurnoutP1>>, vote_types |-> <<>>],
     [readable |-> TRUE, present |-> TRUE, precincts |-> <<TurnoutP1>>,
      vote_types |-> <<[name |-> <<"E","l","e","c","t","i","o","n"," ","D","a","y">>,
                        precincts |-> <<[name |-> <<"P","1">>, votes |-> <<"2">>]>>]>>],
     [readable |-> TRUE, present |-> TRUE,
      precincts |-> <<[TurnoutP1 EXCEPT !.ballotsCast = <<"2",",","0">>]>>, vote_types |-> <<>>]}

\* results: the mapping key -> {vote type -> votes}, in insertion order (a
\* Python dict), as a sequence of [key, vote_data].
HasKey(res, key) == \E i \in 1..Len(res) : res[i].key = key

IndexOf(res, key) == CHOOSE i \in 1..Len(res) : res[i].key = key

\* results[key][method] = count, on a defaultdict of defaultdicts
Put(res, key, method, count) ==
    IF HasKey(res, key)
    THEN [res EXCEPT ![IndexOf(res, key)].vote_data =
             (method :> count) @@ res[IndexOf(res, key)].vote_data]
    ELSE Append(res, [key |-> key, vote_data |-> (method :> count)])

\* No party function has been called yet.
NotResolved == [by |-> "none", ok |-> TRUE, candidate |-> None, party |-> None]

\* The empty output, before anything is written.
NoOutput == [written |-> FALSE, headers |-> <<>>, rows |-> <<>>]

\* The loop body of precinct_results for one result: the vote_types and the
\* results after it.
IngestKey(r, county) ==
    LET candidate0 == IF r.choice_text = None \/ r.choice_text = <<>>
                      THEN <<>> ELSE Strip(r.choice_text)
        od == parse_office(r.contest_text)
        cp == IF Contains(candidate0, <<"(">>) /\ r.choice_party = None
              THEN parse_candidate_party(candidate0)
              ELSE <<candidate0, r.choice_party>>
    IN  [skip |-> candidate0 = <<>> \/ r.jurisdiction = None,
         key |-> <<county, r.jurisdiction, od[1], od[2], cp[2],
                   clean_candidate_name(cp[1])>>]

\* ---------------------------------------------------- add_voter_turnout_rows
reg_key(county, precinct) == <<county, precinct, <<"R","e","g","i","s","t","e","r","e","d"," ","V","o","t","e","r","s">>, None, None, None>>

ballots_key(county, precinct) == <<county, precinct, <<"B","a","l","l","o","t","s"," ","C","a","s","t">>, None, None, None>>

\* An attribute value that passes "if v and v != '0'".
Reported(v) == v # <<>> /\ v # <<"0">>

\* The int() conversions and assignments of the Precinct loop, in order.
RECURSIVE PrecinctOps(_, _)
PrecinctOps(precincts, county) ==
    IF precincts = <<>> THEN <<>>
    ELSE LET p == Head(precincts)
         IN  (IF p.name # <<>> /\ Reported(p.totalVoters)
              THEN <<[key |-> reg_key(county, p.name), method |-> <<"v","o","t","e","s","_","o","n","l","y">>,
                      value |-> p.totalVoters]>>
              ELSE <<>>)
             \o (IF p.name # <<>> /\ Reported(p.ballotsCast)
                 THEN <<[key |-> ballots_key(county, p.name), method |-> <<"b","a","l","l","o","t","s","C","a","s","t">>,
                         value |-> p.ballotsCast]>>
                 ELSE <<>>)
             \o PrecinctOps(Tail(precincts), county)

\* The assignments for the Precinct children of one VoteType element.
RECURSIVE VotePrecinctOps(_, _, _)
VotePrecinctOps(precincts, vote_type_name, county) ==
    IF precincts = <<>> THEN <<>>
    ELSE LET p == Head(precincts)
         IN  (IF p.name # <<>> /\ Reported(p.votes)
              THEN <<[key |-> ballots_key(county, p.name), method |-> vote_type_name,
                      value |-> p.votes]>>
              ELSE <<>>)
             \o VotePrecinctOps(Tail(precincts), vote_type_name, county)

\* The assignments of the VoteType loop, in order.
RECURSIVE VoteTypeOps(_, _)
VoteTypeOps(vts, county) ==
    IF vts = <<>> THEN <<>>
    ELSE LET vt == Head(vts)
         IN  (IF vt.name # <<>> /\ vt.name # <<"r","e","g","V","o","t","e","r","s","C","o","u","n","t","y">>
              THEN VotePrecinctOps(vt.precincts, vt.name, county)
              ELSE <<>>)
             \o VoteTypeOps(Tail(vts), county)

\* The last count ingested for a (key, method) pair (history of the ingests).
Note(li, key, method, count) == (<<key, method>> :> count) @@ li

\* The assignments applied in order until an int() raises ValueError.
RECURSIVE ApplyOps(_, _, _)
ApplyOps(res, li, ops) ==
    IF ops = <<>> THEN [res |-> res, li |-> li, ok |-> TRUE]
    ELSE LET op == Head(ops)
         IN  IF IsInt(op.value)
             THEN ApplyOps(Put(res, op.key, op.method, IntOf(op.value)),
                           Note(li, op.key, op.method, IntOf(op.value)), Tail(ops))
             ELSE [res |-> res, li |-> li, ok |-> FALSE]

\* The results the except branch folds into reg_voters_data.
IsRegVoters(r) ==
    /\ r.vote_type = <<"r","e","g","V","o","t","e","r","s","C","o","u","n","t","y">>
    /\ r.jurisdiction # None /\ r.jurisdiction # <<>>
    /\ r.votes # 0

\* reg_voters_data as a sequence of [precinct, reg_voters, last], in insertion
\* order; last is the votes of the latest result folded in.
RECURSIVE reg_voters_data(_)
reg_voters_data(results_seq) ==
    IF results_seq = <<>> THEN <<>>
    ELSE LET before == reg_voters_data(SubSeq(results_seq, 1, Len(results_seq) - 1))
             r == results_seq[Len(results_seq)]
             at == {i \in 1..Len(before) : before[i].precinct = r.jurisdiction}
         IN  IF ~IsRegVoters(r) THEN before
             ELSE IF at = {}
             THEN Append(before, [precinct |-> r.jurisdiction, reg_voters |-> r.votes,
                                  last |-> r.votes])
             ELSE LET i == CHOOSE i \in at : TRUE
                  IN  [before EXCEPT ![i].reg_voters = @ + r.votes, ![i].last = r.votes]

\* The except branch: one Registered Voters row per precinct of reg_voters_data.
RECURSIVE FallbackRows(_, _, _, _)
FallbackRows(res, li, reg_data, county) ==
    IF reg_data = <<>> THEN [res |-> res, li |-> li]
    ELSE LET d == Head(reg_data)
         IN  IF d.reg_voters > 0
             THEN FallbackRows(Put(res, reg_key(county, d.precinct), <<"v","o","t","e","s","_","o","n","l","y">>, d.reg_voters),
                               Note(li, reg_key(county, d.precinct), <<"v","o","t","e","s","_","o","n","l","y">>, d.last),
                               Tail(reg_data), county)
             ELSE FallbackRows(res, li, Tail(reg_data), county)

\* add_voter_turnout_rows(results, parser, county_name)
add_voter_turnout_rows(res, li, t, results_seq, county) ==
    LET tried == IF ~t.readable THEN [res |-> res, li |-> li, ok |-> FALSE]
                 ELSE IF ~t.present THEN [res |-> res, li |-> li, ok |-> TRUE]
                 ELSE ApplyOps(res, li,
                               PrecinctOps(t.precincts, county)
                                 \o VoteTypeOps(t.vote_types, county))
    IN  IF tried.ok THEN [res |-> tried.res, li |-> tried.li]
        ELSE FallbackRows(tried.res, tried.li, reg_voters_data(results_seq), county)

\* ---------------------------------------------------- rows, sort, write
RECURSIVE SumOver(_, _)
SumOver(f, S) ==
    IF S = {} THEN 0
    ELSE LET x == CHOOSE x \in S : TRUE IN f[x] + SumOver(f, S \ {x})

\* All the orders a set can be iterated in.
Orders(S) ==
    {f \in [1..Cardinality(S) -> S] : \A x \in S : \E i \in 1..Cardinality(S) : f[i] = x}

\* row_data of one results item; order is the iteration order of vote_types.
row_data(item, order) ==
    LET office == item.key[3]
        vd == item.vote_data
        party == IF Contains(office, <<"R","e","p","u","b","l","i","c","a","n">>) THEN <<"R","E","P">>
                 ELSE IF Contains(office, <<"D","e","m","o","c","r","a","t">>) THEN <<"D","E","M">>
                 ELSE item.key[5]
        vote_total == IF office = <<"R","e","g","i","s","t","e","r","e","d"," ","V","o","t","e","r","s">>
                      THEN (IF <<"v","o","t","e","s","_","o","n","l","y">> \in DOMAIN vd THEN vd[<<"v","o","t","e","s","_","o","n","l","y">>] ELSE 0)
                      ELSE SumOver(vd, DOMAIN vd \ {<<"v","o","t","e","s","_","o","n","l","y">>})
        shown == {i \in 1..Len(order) : order[i] # <<"v","o","t","e","s","_","o","n","l","y">>}
        names == {column_name(order[i]) : i \in shown}
        cell(vt) == IF office = <<"R","e","g","i","s","t","e","r","e","d"," ","V","o","t","e","r","s">> THEN EmptyCell
                    ELSE IF vt \in DOMAIN vd THEN vd[vt] ELSE 0
        lastOf(c) == CHOOSE i \in shown :
                        /\ column_name(order[i]) = c
                        /\ \A j \in shown : column_name(order[j]) = c => j <= i
    IN  [county |-> item.key[1], precinct |-> item.key[2], office |-> office,
         district |-> item.key[4], party |-> party, candidate |-> item.key[6],
         votes |-> vote_total,
         cols |-> [c \in names |-> cell(order[lastOf(c)])]]

\* x['district'] or ''
OrEmpty(s) == IF s = None THEN <<>> ELSE s

\* The sort key (office, district or '', candidate) of a is below that of b.
KeyLess(a, b) ==
    IF a.office # b.office THEN StrLess(a.office, b.office)
    ELSE IF OrEmpty(a.district) # OrEmpty(b.district)
    THEN StrLess(OrEmpty(a.district), OrEmpty(b.district))
    ELSE IF a.candidate = None \/ b.candidate = None THEN FALSE
    ELSE StrLess(a.candidate, b.candidate)

\* Comparing the keys of a and b raises TypeError (None against a str).
KeyTypeError(a, b) ==
    /\ a.office = b.office
    /\ OrEmpty(a.district) = OrEmpty(b.district)
    /\ (a.candidate = None) # (b.candidate = None)

\* list.sort(key=...): stable, so a row goes after the rows that are not above it
RECURSIVE SortRows(_)
SortRows(rows) ==
    IF rows = <<>> THEN <<>>
    ELSE LET sorted == SortRows(SubSeq(rows, 1, Len(rows) - 1))
             x == rows[Len(rows)]
             above == {i \in 1..Len(sorted) : KeyLess(x, sorted[i])}
             at == IF above = {} THEN Len(sorted) + 1
                   ELSE CHOOSE i \in above : \A j \in above : i <= j
         IN  SubSeq(sorted, 1, at - 1) \o <<x>> \o SubSeq(sorted, at, Len(sorted))

\* sorted(list of str)
RECURSIVE SortStrs(_)
SortStrs(strs) ==
    IF strs = <<>> THEN <<>>
    ELSE LET sorted == SortStrs(SubSeq(strs, 1, Len(strs) - 1))
             x == strs[Len(strs)]
             above == {i \in 1..Len(sorted) : StrLess(x, sorted[i])}
             at == IF above = {} THEN Len(sorted) + 1
                   ELSE CHOOSE i \in above : \A j \in above : i <= j
         IN  SubSeq(sorted, 1, at - 1) \o <<x>> \o SubSeq(sorted, at, Len(sorted))

\* vote_type_headers
vote_type_headers(order) == SortStrs([i \in 1..Len(order) |-> column_name(order[i])])

\* The row as DictWriter writes it: a cell per header, '' for a missing one.
written_row(row, headers) ==
    [row EXCEPT !.cols = [i \in 1..Len(headers) |->
        IF headers[i] \in DOMAIN row.cols THEN row.cols[headers[i]] ELSE EmptyCell]]

\* ---------------------------------------------------- precinct_results, steps
\* county = p.region if hasattr(p, 'region') else county_name
County == IF region = None THEN <<"t","r","a","v","i","s">> ELSE region

InitScan ==
    /\ pos = 1
    /\ results = <<>>
    /\ vote_types = {}
    /\ last_ingest = <<>>
    /\ pc = "scan"
    /\ output = NoOutput

Init ==
    /\ doc \in Docs(MaxResults)
    /\ turnout \in Turnouts
    /\ region \in {None, <<"T","r","a","v","i","s">>}
    /\ InitScan
    /\ run = 1
    /\ first_doc = <<>>
    /\ first_output = NoOutput
    /\ text = <<>>
    /\ resolved = NotResolved
    /\ ScanIdle
    /\ OfficeIdle
    /\ BatchIdle
    /\ StatewideIdle

\* One pass of the loop over p.results.
Ingest ==
    /\ pc = "scan"
    /\ pos <= Len(doc)
    /\ LET r == doc[pos]
           k == IngestKey(r, County)
       IN  IF r.vote_type \in excluded_vote_types \/ ~r.has_choice
           THEN UNCHANGED <<vote_types, results, last_ingest>>
           ELSE /\ vote_types' = vote_types \cup {r.vote_type}
                /\ IF k.skip
                   THEN UNCHANGED <<results, last_ingest>>
                   ELSE /\ results' = Put(results, k.key, r.vote_type, r.votes)
                        /\ last_ingest' = Note(last_ingest, k.key, r.vote_type, r.votes)
    /\ pos' = pos + 1
    /\ UNCHANGED <<doc, turnout, region, pc, output, run, first_doc, first_output, partyVars, officeVars, batchVars, statewideVars, scanVars>>

\* The call of add_voter_turnout_rows after the loop.
Turnout ==
    /\ pc = "scan"
    /\ pos = Len(doc) + 1
    /\ LET a == add_voter_turnout_rows(results, last_ingest, turnout, doc, <<"t","r","a","v","i","s">>)
       IN  /\ results' = a.res
           /\ last_ingest' = a.li
    /\ pc' = "emit"
    /\ UNCHANGED <<doc, turnout, region, pos, vote_types, output, run, first_doc,
                   first_output, partyVars, officeVars, batchVars, statewideVars, scanVars>>

\* Rows, sort and CSV: the rest of precinct_results.  The iteration order of
\* the set vote_types is not fixed by the language; sort raises TypeError when
\* it has to compare a None candidate with a str one.
Emit ==
    /\ pc = "emit"
    /\ \E order \in Orders(vote_types) :
        LET rows == [i \in 1..Len(results) |-> row_data(results[i], order)]
            headers == vote_type_headers(order)
            sorted == SortRows(rows)
        IN  IF \E i, j \in 1..Len(rows) : KeyTypeError(rows[i], rows[j])
            THEN /\ pc' = "error"
                 /\ UNCHANGED output
            ELSE /\ pc' = "done"
                 /\ output' =
                      IF rows = <<>> THEN NoOutput
                      ELSE [written |-> TRUE, headers |-> headers,
                            rows |-> [i \in 1..Len(rows) |->
                                        written_row(sorted[i], headers)]]
    /\ UNCHANGED <<doc, turnout, region, pos, results, vote_types, last_ingest, run,
                   first_doc, first_output, partyVars, officeVars, batchVars, statewideVars, scanVars>>

Next == Ingest \/ Turnout \/ Emit

Spec == Init /\ [][Next]_vars

\* All the orders of the results of a document.
Reorderings(d) ==
    {[i \in 1..Len(d) |-> d[p[i]]] : p \in Orders(1..Len(d))}

\* A second run of precinct_results, on the results of the first in some order.
Rerun ==
    /\ pc \in {"done", "error"}
    /\ run = 1
    /\ run' = 2
    /\ first_doc' = doc
    /\ first_output' = [output EXCEPT !.written = (pc = "done" /\ output.written)]
    /\ doc' \in Reorderings(doc)
    /\ pos' = 1
    /\ results' = <<>>
    /\ vote_types' = {}
    /\ last_ingest' = <<>>
    /\ pc' = "scan"
    /\ output' = NoOutput
    /\ UNCHANGED <<turnout, region, partyVars, officeVars, batchVars, statewideVars, scanVars>>

NextTwoRuns == Ingest \/ Turnout \/ Emit \/ Rerun

SpecTwoRuns == Init /\ [][NextTwoRuns]_vars

\* ------------------------------------------------------------ candidate texts
\* The pieces candidate texts are assembled from.
Pieces == {<<"J","o","h","n"," ","S","m","i","t","h"," ">>, <<"(","I",")">>, <<"(","R","E","P",")">>, <<" ","W","r","i","t","e","-","i","n">>, <<"(">>, <<"R","E","P"," ">>, <<"D","E","M"," ">>, <<" ">>,
           <<"S","m","i","t","h">>}

RECURSIVE Texts(_)
Texts(n) ==
    IF n = 0 THEN {<<>>}
    ELSE Texts(n - 1) \cup {a \o b : a \in Texts(n - 1), b \in Pieces}

InitParty ==
    /\ text \in Texts(MaxPieces)
    /\ resolved = NotResolved
    /\ doc = <<>>
    /\ turnout = [readable |-> TRUE, present |-> FALSE, precincts |-> <<>>,
                  vote_types |-> <<>>]
    /\ region = None
    /\ InitScan
    /\ run = 1
    /\ first_doc = <<>>
    /\ first_output = NoOutput
    /\ ScanIdle
    /\ OfficeIdle
    /\ BatchIdle
    /\ StatewideIdle

\* A call of parse_candidate_party on the text.
ParseCandidateParty ==
    /\ resolved.by = "none"
    /\ resolved' = [by |-> "parse_candidate_party", ok |-> TRUE,
                    candidate |-> parse_candidate_party(text)[1],
                    party |-> parse_candidate_party(text)[2]]
    /\ UNCHANGED <<text, officeVars, batchVars, statewideVars, clarityVars, scanVars>>

\* The statewide_results loop body resolving the text of a choice.
StatewideResolve ==
    /\ resolved.by = "none"
    /\ resolved' = [by |-> "statewide_results"] @@ statewide_resolve(text)
    /\ UNCHANGED <<text, officeVars, batchVars, statewideVars, clarityVars, scanVars>>

\* A call of clean_candidate_name on the text.
CleanCandidateName ==
    /\ resolved.by = "none"
    /\ resolved' = [by |-> "clean_candidate_name", ok |-> TRUE,
                    candidate |-> clean_candidate_name(text), party |-> None]
    /\ UNCHANGED <<text, officeVars, batchVars, statewideVars, clarityVars, scanVars>>

NextParty == ParseCandidateParty \/ StatewideResolve \/ CleanCandidateName

SpecParty == InitParty /\ [][NextParty]_vars

\* ------------------------------------------------------------ office texts
\* Number of pieces an office text is assembled from.
MaxOfficePieces == 3

\* The pieces office texts are assembled from.
OfficePieces ==
    {<<"P","r","e","s","i","d","e","n","t","/","V","i","c","e"," ","P","r","e","s","i","d","e","n","t">>, <<"S","t","a","t","e"," ","R","e","p","r","e","s","e","n","t","a","t","i","v","e">>, <<","," ","D","i","s","t","r","i","c","t"," ","1","4">>, <<" ","-"," ","R","E","P">>,
     <<"U","S"," ","S","e","n","a","t","o","r">>, <<"U",".","S","."," ","R","e","p","r","e","s","e","n","t","a","t","i","v","e">>, <<"S","h","e","r","i","f","f">>, <<"C","o","u","n","t","y"," ">>, <<" ">>,
     <<" ","P","r","e","c","i","n","c","t"," ","2">>}

RECURSIVE OfficeTexts(_)
OfficeTexts(n) ==
    IF n = 0 THEN {<<>>}
    ELSE OfficeTexts(n - 1) \cup {a \o b : a \in OfficeTexts(n - 1), b \in OfficePieces}

InitOffice ==
    /\ raw_office \in OfficeTexts(MaxOfficePieces)
    /\ normalized = NotNormalized
    /\ text = <<>>
    /\ resolved = NotResolved
    /\ doc = <<>>
    /\ turnout = [readable |-> TRUE, present |-> FALSE, precincts |-> <<>>,
                  vote_types |-> <<>>]
    /\ region = None
    /\ InitScan
    /\ run = 1
    /\ first_doc = <<>>
    /\ first_output = NoOutput
    /\ ScanIdle
    /\ BatchIdle
    /\ StatewideIdle

\* A call of clarity_parser.parse_office on the text.
ParseOffice ==
    /\ normalized.by = "none"
    /\ normalized' = [by |-> "parse_office", office |-> parse_office(raw_office)[1],
                      district |-> parse_office(raw_office)[2]]
    /\ UNCHANGED <<raw_office, partyVars, clarityVars, scanVars, batchVars, statewideVars>>

\* A call of collin.normalize_office_name on the text; it returns no district.
CollinNormalizeOfficeName ==
    /\ normalized.by = "none"
    /\ normalized' = [by |-> "collin.normalize_office_name",
                      office |-> collin_normalize_office_name(raw_office),
                      district |-> None]
    /\ UNCHANGED <<raw_office, partyVars, clarityVars, scanVars, batchVars, statewideVars>>

NextOffice == ParseOffice \/ CollinNormalizeOfficeName

SpecOffice == InitOffice /\ [][NextOffice]_vars

\* ------------------------------------------------------------ line parsers, steps
\* Bound on the number of lines of a report.
MaxLines == 4

\* The local variables of parse_election_data.
ScanState ==
    [current_precinct |-> current_precinct, current_office |-> current_office,
     district |-> district, precinct_stats_added |-> precinct_stats_added, data |-> data]

InitLines ==
    /\ parser \in {"electionware", "electionware2", "fort_bend", "collin", "greenbox"}
    /\ current_precinct = ScanStart.current_precinct
    /\ current_office = ScanStart.current_office
    /\ district = ScanStart.district
    /\ precinct_stats_added = ScanStart.precinct_stats_added
    /\ data = ScanStart.data
    /\ line = None
    /\ scanned = 0
    /\ csv = NoCsv
    /\ OfficeIdle
    /\ BatchIdle
    /\ StatewideIdle
    /\ text = <<>>
    /\ resolved = NotResolved
    /\ doc = <<>>
    /\ turnout = [readable |-> TRUE, present |-> FALSE, precincts |-> <<>>,
                  vote_types |-> <<>>]
    /\ region = None
    /\ InitScan
    /\ run = 1
    /\ first_doc = <<>>
    /\ first_output = NoOutput

\* The loop passes over the next line of the text, raw, leaves st and goes
\* on at line next_index.
PassTo(raw, st, next_index) ==
    /\ ~csv.done
    /\ scanned < MaxLines
    /\ current_precinct' = st.current_precinct
    /\ current_office' = st.current_office
    /\ district' = st.district
    /\ precinct_stats_added' = st.precinct_stats_added
    /\ data' = st.data
    /\ line' = Strip(raw)
    /\ scanned' = next_index
    /\ UNCHANGED <<parser, csv, partyVars, officeVars, batchVars, statewideVars, clarityVars>>

\* A pass of a for loop over the lines: the next line is the one after.
Pass(raw, st) == PassTo(raw, st, scanned + 1)

ElectionwareLine ==
    /\ parser = "electionware"
    /\ \E raw \in electionware_lines : Pass(raw, electionware_line(ScanState, raw, <<"H","a","m","i","l","t","o","n">>))

Electionware2Line ==
    /\ parser = "electionware2"
    /\ \E raw \in electionware2_lines : Pass(raw, electionware2_line(ScanState, raw, <<"R","e","e","v","e","s">>))

FortBendLine ==
    /\ parser = "fort_bend"
    /\ \E raw \in fort_bend_lines :
         PassTo(raw, fort_bend_line(ScanState, raw, <<"F","o","r","t"," ","B","e","n","d">>),
                fort_bend_index(ScanState, raw, scanned))

CollinLine ==
    /\ parser = "collin"
    /\ \E raw \in collin_lines : Pass(raw, collin_line(ScanState, raw, <<"C","o","l","l","i","n">>))

GreenboxLine ==
    /\ parser = "greenbox"
    /\ \E raw \in greenbox_lines : Pass(raw, greenbox_line(ScanState, raw, <<"K","e","r","r">>))

\* main writing a file of headers even when data is empty.
WriteCsv_when_empty ==
    /\ parser # "none"
    /\ ~csv.done
    /\ csv' = [done |-> TRUE, written |-> TRUE, rows |-> data]
    /\ UNCHANGED <<parser, current_precinct, current_office, district,
                   precinct_stats_added, data, line, scanned, partyVars, officeVars, batchVars, statewideVars, clarityVars>>

\* main, once the text is scanned: no file when data is empty, else a row
\* per record, in the order of data.
WriteCsv ==
    /\ parser # "none"
    /\ ~csv.done
    /\ csv' = [done |-> TRUE, written |-> data # <<>>, rows |-> data]
    /\ UNCHANGED <<parser, current_precinct, current_office, district,
                   precinct_stats_added, data, line, scanned, partyVars, officeVars, batchVars, statewideVars, clarityVars>>

NextLines ==
    ElectionwareLine \/ Electionware2Line \/ FortBendLine \/ CollinLine \/ GreenboxLine
        \/ WriteCsv

SpecLines == InitLines /\ [][NextLines]_vars

\* ------------------------------------------------------------ download_county_files
\* Bound on the number of results in a county's detail.xml.
MaxFileResults == 1

\* The record store precinct_results builds for county from the results d it
\* parsed and the VoterTurnout section t it read: the loop over p.results,
\* then add_voter_turnout_rows.
scan_store(county, d, t) ==
    LET RECURSIVE stored(_)
        stored(n) ==
            IF n = 0 THEN <<>>
            ELSE LET r == d[n]
                     k == IngestKey(r, county)
                 IN  IF r.vote_type \in excluded_vote_types \/ ~r.has_choice \/ k.skip
                     THEN stored(n - 1)
                     ELSE Put(stored(n - 1), k.key, r.vote_type, r.votes)
    IN  add_voter_turnout_rows(stored(Len(d)), <<>>, t, d, county).res

\* Two counties, each with the detail.xml its zip holds; the passes of the
\* loop of download_county_files over them run side by side in one working
\* directory.
InitBatch ==
    /\ detail_xml = NoDetailXml
    /\ no_xml = <<>>
    /\ \E f1, f2 \in {[exists |-> TRUE, results |-> d, turnout |-> t] :
                        d \in Docs(MaxFileResults),
                        t \in {u \in Turnouts : u.readable /\ u.vote_types = <<>>}} :
         scans = <<[county_name |-> <<"t","r","a","v","i","s">>, file |-> f1, at |-> "start",
                    parsed |-> <<>>, store |-> <<>>],
                   [county_name |-> <<"h","a","y","s">>, file |-> f2, at |-> "start",
                    parsed |-> <<>>, store |-> <<>>]>>
    /\ text = <<>>
    /\ resolved = NotResolved
    /\ OfficeIdle
    /\ doc = <<>>
    /\ turnout = [readable |-> TRUE, present |-> FALSE, precincts |-> <<>>,
                  vote_types |-> <<>>]
    /\ region = None
    /\ InitScan
    /\ run = 1
    /\ first_doc = <<>>
    /\ first_output = NoOutput
    /\ ScanIdle
    /\ StatewideIdle

\* z.extractall(): the county's detail.xml replaces the one in the directory.
Extract(i) ==
    /\ scans[i].at = "start"
    /\ detail_xml' = scans[i].file
    /\ scans' = [scans EXCEPT ![i].at = "extracted"]
    /\ UNCHANGED <<no_xml, partyVars, officeVars, clarityVars, scanVars, statewideVars>>

\* p.parse("detail.xml") of precinct_results.
Parse(i) ==
    /\ scans[i].at = "extracted"
    /\ detail_xml.exists
    /\ scans' = [scans EXCEPT ![i].at = "parsed", ![i].parsed = detail_xml.results]
    /\ UNCHANGED <<detail_xml, no_xml, partyVars, officeVars, clarityVars, scanVars, statewideVars>>

\* The loop over p.results, then add_voter_turnout_rows, which reads
\* detail.xml again with ET.parse.
AddTurnout(i) ==
    /\ scans[i].at = "parsed"
    /\ scans' = [scans EXCEPT
                   ![i].at = "done",
                   ![i].store = scan_store(scans[i].county_name, scans[i].parsed,
                                           detail_xml.turnout)]
    /\ UNCHANGED <<detail_xml, no_xml, partyVars, officeVars, clarityVars, scanVars, statewideVars>>

NextBatch == \E i \in 1..2 : Extract(i) \/ Parse(i) \/ AddTurnout(i)

SpecBatch == InitBatch /\ [][NextBatch]_vars

\* ------------------------------------------------------------ download_county_files, in sequence
\* What a sub-jurisdiction's report URL gives: content that ZipFile rejects
\* (zip FALSE), an archive without a detail.xml (file.exists FALSE), or an
\* archive that holds the detail.xml file.
Archives ==
    {[zip |-> FALSE, file |-> NoDetailXml], [zip |-> TRUE, file |-> NoDetailXml]}
        \cup {[zip |-> TRUE, file |-> [exists |-> TRUE, results |-> d, turnout |-> t]] :
                d \in Docs(MaxFileResults),
                t \in {u \in Turnouts : u.readable /\ u.vote_types = <<>>}}

\* subs: two sub-jurisdictions, an empty working directory.
InitDownload ==
    /\ detail_xml = NoDetailXml
    /\ no_xml = <<>>
    /\ \E a1, a2 \in Archives :
         scans = <<[county_name |-> <<"t","r","a","v","i","s">>, archive |-> a1, at |-> "start",
                    parsed |-> <<>>, store |-> <<>>],
                   [county_name |-> <<"h","a","y","s">>, archive |-> a2, at |-> "start",
                    parsed |-> <<>>, store |-> <<>>]>>
    /\ text = <<>>
    /\ resolved = NotResolved
    /\ OfficeIdle
    /\ doc = <<>>
    /\ turnout = [readable |-> TRUE, present |-> FALSE, precincts |-> <<>>,
                  vote_types |-> <<>>]
    /\ region = None
    /\ InitScan
    /\ run = 1
    /\ first_doc = <<>>
    /\ first_output = NoOutput
    /\ ScanIdle
    /\ StatewideIdle

\* The for loop is at sub i: the passes of the subs before it have ended.
LoopAt(i) ==
    \A j \in 1..(i - 1) : scans[j].at \in {"done", "returned", "raised"}

\* requests.get, ZipFile, extractall: content that is no zip raises into the
\* bare except, which appends the sub's name to no_xml; extractall writes
\* the files the archive holds over the working directory.
DownloadExtract(i) ==
    /\ LoopAt(i)
    /\ scans[i].at = "start"
    /\ IF scans[i].archive.zip
       THEN /\ detail_xml' = IF scans[i].archive.file.exists THEN scans[i].archive.file
                             ELSE detail_xml
            /\ scans' = [scans EXCEPT ![i].at = "extracted"]
            /\ no_xml' = no_xml
       ELSE /\ scans' = [scans EXCEPT ![i].at = "raised"]
            /\ no_xml' = Append(no_xml, scans[i].county_name)
            /\ detail_xml' = detail_xml
    /\ UNCHANGED <<partyVars, officeVars, clarityVars, scanVars, statewideVars>>

\* precinct_results when os.path.exists("detail.xml") is false: it logs and
\* returns False, which download_county_files does not look at.
DetailMissing(i) ==
    /\ LoopAt(i)
    /\ scans[i].at = "extracted"
    /\ ~detail_xml.exists
    /\ scans' = [scans EXCEPT ![i].at = "returned"]
    /\ UNCHANGED <<detail_xml, no_xml, partyVars, officeVars, clarityVars, scanVars,
                   statewideVars>>

NextDownload ==
    \E i \in 1..2 :
        \/ DownloadExtract(i)
        \/ DetailMissing(i)
        \/ LoopAt(i) /\ Parse(i)
        \/ LoopAt(i) /\ AddTurnout(i)

SpecDownload == InitDownload /\ [][NextDownload]_vars

\* ------------------------------------------------------------ statewide_results
\* Bound on the number of results of the statewide detail.xml.
MaxStatewideResults == 2

\* parse_party(office_text)
parse_party(office_text) ==
    IF Contains(office_text, <<"-"," ","R","E","P">>) THEN <<"R","E","P">>
    ELSE IF Contains(office_text, <<"-"," ","D","E","M">>) THEN <<"D","E","M">>
    ELSE None

\* The results the contest-tree reader yields at state level: choice text,
\* contest text, vote type, votes, and the county name (None when
\* result.jurisdiction is None).
StatewideFeed ==
    {[choice_text |-> c, contest_text |-> <<"S","h","e","r","i","f","f">>, vote_type |-> vt, votes |-> v,
      jurisdiction |-> j] :
        c \in {<<"J","o","h","n"," ","S","m","i","t","h">>, <<"A","n","n"," ","L","e","e"," ","(","D","E","M",")">>},
        vt \in {<<"E","l","e","c","t","i","o","n"," ","D","a","y">>, <<"A","b","s","e","n","t","e","e"," ","b","y"," ","M","a","i","l">>},
        v \in {1, 2},
        j \in {None, <<"K","a","n","a","w","h","a">>}}

\* The identity of the record a result belongs to; ok is FALSE when the
\* inline party resolution raises.
statewide_key(r) ==
    LET od == parse_office(r.contest_text)
        party0 == parse_party(r.contest_text)
        cp == IF Contains(r.choice_text, <<"(">>) /\ party0 = None
              THEN statewide_resolve(r.choice_text)
              ELSE [ok |-> TRUE, candidate |-> r.choice_text, party |-> party0]
    IN  [ok |-> cp.ok, county |-> r.jurisdiction, office |-> od[1], district |-> od[2],
         party |-> cp.party, candidate |-> cp.candidate]

\* The loop body of statewide_results on the list of records: the first
\* record with the result's identity gets the count under the vote type,
\* else a record is appended.
statewide_store(recs, r) ==
    LET k == statewide_key(r)
        same == {i \in 1..Len(recs) :
                    /\ recs[i].county = k.county /\ recs[i].office = k.office
                    /\ recs[i].district = k.district /\ recs[i].party = k.party
                    /\ recs[i].candidate = k.candidate}
    IN  IF same # {}
        THEN LET first == CHOOSE i \in same : \A j \in same : i <= j
             IN  [recs EXCEPT ![first].by_type = (r.vote_type :> r.votes) @@ recs[first].by_type]
        ELSE Append(recs, [county |-> k.county, office |-> k.office, district |-> k.district,
                           party |-> k.party, candidate |-> k.candidate,
                           by_type |-> (r.vote_type :> r.votes)])

InitStatewide ==
    /\ statewide = [at |-> "loop", fed |-> 0, results |-> <<>>, rows |-> <<>>]
    /\ text = <<>>
    /\ resolved = NotResolved
    /\ OfficeIdle
    /\ doc = <<>>
    /\ turnout = [readable |-> TRUE, present |-> FALSE, precincts |-> <<>>,
                  vote_types |-> <<>>]
    /\ region = None
    /\ InitScan
    /\ run = 1
    /\ first_doc = <<>>
    /\ first_output = NoOutput
    /\ ScanIdle
    /\ BatchIdle

\* One pass of the loop over p.results.
StatewideResult ==
    /\ statewide.at = "loop"
    /\ statewide.fed < MaxStatewideResults
    /\ \E r \in StatewideFeed :
         statewide' = IF statewide_key(r).ok
                      THEN [statewide EXCEPT !.fed = @ + 1,
                                             !.results = statewide_store(@, r)]
                      ELSE [statewide EXCEPT !.at = "raised"]
    /\ UNCHANGED <<partyVars, officeVars, clarityVars, scanVars, batchVars>>

\* The loop is over: the file is opened and the header row written.
StatewideOpen ==
    /\ statewide.at = "loop"
    /\ statewide' = [statewide EXCEPT !.at = "write"]
    /\ UNCHANGED <<partyVars, officeVars, clarityVars, scanVars, batchVars>>

\* One pass of the writing loop: row['Election Day'] raises KeyError for a
\* record that has no count under that vote type; the rows written before it
\* stay in the file.
StatewideWriteRow ==
    /\ statewide.at = "write"
    /\ Len(statewide.rows) < Len(statewide.results)
    /\ LET row == statewide.results[Len(statewide.rows) + 1]
       IN  statewide' =
             IF <<"E","l","e","c","t","i","o","n"," ","D","a","y">> \in DOMAIN row.by_type
             THEN [statewide EXCEPT !.rows = Append(@,
                     [county |-> row.county, office |-> row.office,
                      district |-> row.district, party |-> row.party,
                      candidate |-> row.candidate,
                      votes |-> row.by_type[<<"E","l","e","c","t","i","o","n"," ","D","a","y">>]])]
             ELSE [statewide EXCEPT !.at = "raised"]
    /\ UNCHANGED <<partyVars, officeVars, clarityVars, scanVars, batchVars>>

\* The writing loop is over and the file is closed.
StatewideClose ==
    /\ statewide.at = "write"
    /\ Len(statewide.rows) = Len(statewide.results)
    /\ statewide' = [statewide EXCEPT !.at = "done"]
    /\ UNCHANGED <<partyVars, officeVars, clarityVars, scanVars, batchVars>>

NextStatewide == StatewideResult \/ StatewideOpen \/ StatewideWriteRow \/ StatewideClose

SpecStatewide == InitStatewide /\ [][NextStatewide]_vars

\* ------------------------------------------------------------ claims
S_JohnSmithI == <<"J","o","h","n"," ","S","m","i","t","h"," ","(","I",")">>
S_JohnSmith == <<"J","o","h","n"," ","S","m","i","t","h">>

\* The text holds exactly one (I) marker.
OneMarker(s) == Len(Split(s, <<"(","I",")">>)) = 2

\* The identity key of an emitted row.
RowKey(row) == <<row.county, row.precinct, row.office, row.district, row.party, row.candidate>>

\* The sum of the vote-method cells of a written row, empty cells left out.
RECURSIVE CellSum(_)
CellSum(cells) ==
    IF cells = <<>> THEN 0
    ELSE (IF Head(cells) = EmptyCell THEN 0 ELSE Head(cells)) + CellSum(Tail(cells))

\* C2 as stated: in every row precinct_results writes, votes is the sum of the
\* row's vote-method columns unless the office is "Registered Voters", and a
\* "Registered Voters" row has every vote-method column empty.
C2_AsStated ==
    (pc = "done" /\ output.written) =>
        \A i \in 1..Len(output.rows) :
            LET row == output.rows[i]
            IN  IF row.office = <<"R","e","g","i","s","t","e","r","e","d"," ","V","o","t","e","r","s">>
                THEN \A j \in 1..Len(row.cols) : row.cols[j] = EmptyCell
                ELSE row.votes = CellSum(row.cols)

\* C3 as stated: the value stored for a (key, vote method) pair is the count of
\* the most recent ingest for that pair, never a sum over the ingests.
C3_AsStated ==
    \A i \in 1..Len(results) :
        \A m \in DOMAIN results[i].vote_data :
            results[i].vote_data[m] = last_ingest[<<results[i].key, m>>]

\* No two results of the document name the same (key, vote method) pair.
NoRepeatedPair(d) ==
    \A i, j \in 1..Len(d) :
        (i # j /\ IngestKey(d[i], County).key = IngestKey(d[j], County).key)
            => d[i].vote_type # d[j].vote_type

\* No two vote types of the document share a column name.
NoSharedColumn(d) ==
    \A i, j \in 1..Len(d) :
        column_name(d[i].vote_type) = column_name(d[j].vote_type)
            => d[i].vote_type = d[j].vote_type

\* C5 as stated: two documents holding the same results in a different order,
\* with no repeated (key, method) pair, yield the same rows in the same order.
C5_AsStated ==
    (run = 2 /\ pc = "done" /\ NoRepeatedPair(doc) /\ NoSharedColumn(doc))
        => output.rows = first_output.rows

\* C6 as stated: two runs on the same document write the same headers and the
\* same rows, cell for cell.
C6_AsStated ==
    (run = 2 /\ pc = "done" /\ doc = first_doc) => output = first_output

C10_SingleMarker ==
    (resolved.by = "parse_candidate_party" /\ OneMarker(text))
        => /\ resolved.party = <<"I">>
           /\ EndsWith(resolved.candidate, <<"(","I",")">>)
                <=> (Strip(Split(text, <<"(","I",")">>)[2]) # <<>>)

C10_Witness ==
    /\ resolved.by = "parse_candidate_party"
    /\ OneMarker(text)
    /\ Strip(Split(text, <<"(","I",")">>)[2]) # <<>>
    /\ EndsWith(resolved.candidate, <<"(","I",")">>)
    /\ resolved.party = <<"I">>


\* ---- claims about the line parsers
\* No two of the rows share an identity key.
NoDupKeys(rows) ==
    \A i, j \in 1..Len(rows) : RowKey(rows[i]) = RowKey(rows[j]) => i = j

\* C1 as stated: the rows a parser writes hold at most one row per identity
\* key (county, precinct, office, district, party, candidate); a later line
\* or result for a key already seen adds no second row.
C1_AsStated ==
    /\ csv.written => NoDupKeys(csv.rows)
    /\ (pc = "done" /\ output.written) => NoDupKeys(output.rows)

\* The rows are in non-decreasing order of (office, district or '', candidate).
InKeyOrder(rows) ==
    \A i, j \in 1..Len(rows) : i < j => ~KeyLess(rows[j], rows[i])

\* C4 as stated: the rows handed to the CSV writer are in non-decreasing
\* order of (office, district-or-empty, candidate), whichever the parser.
C4_AsStated ==
    /\ csv.written => InKeyOrder(csv.rows)
    /\ (pc = "done" /\ output.written) => InKeyOrder(output.rows)

S_RV1053 == <<"R","e","g","i","s","t","e","r","e","d"," ","V","o","t","e","r","s"," ","-"," ","T","o","t","a","l"," ","1",",","0","5","3">>
S_RV12 == <<"R","e","g","i","s","t","e","r","e","d"," ","V","o","t","e","r","s"," ","-"," ","T","o","t","a","l"," ","1","2">>

\* The N of a "Registered Voters - Total N" line, read off the text.
RegisteredVotersOf(l) == IF l = S_RV1053 THEN 1053 ELSE 12

\* The county_name the parser runs with.
CountyOf(p) ==
    CASE p = "electionware" -> <<"H","a","m","i","l","t","o","n">>
      [] p = "electionware2" -> <<"R","e","e","v","e","s">>
      [] p = "fort_bend" -> <<"F","o","r","t"," ","B","e","n","d">>
      [] p = "greenbox" -> <<"K","e","r","r">>
      [] OTHER -> <<"C","o","l","l","i","n">>

\* C7: in electionware.py, electionware2.py and fort_bend.py, when a precinct
\* is current and its registered-voters statistic is not yet recorded, the
\* line "Registered Voters - Total N", N with or without thousands commas,
\* appends exactly one record: office "Registered Voters", votes the integer
\* N, district, party and candidate empty, every vote-method column empty.
C7_RegisteredVotersRow ==
    [][(/\ parser \in {"electionware", "electionware2", "fort_bend"}
        /\ scanned' = scanned + 1
        /\ line' \in {S_RV1053, S_RV12}
        /\ current_precinct # None
        /\ (current_precinct \o <<"_","r","e","g","i","s","t","e","r","e","d">>) \notin precinct_stats_added)
       => data' = Append(data,
                         [county |-> CountyOf(parser), precinct |-> current_precinct,
                          office |-> <<"R","e","g","i","s","t","e","r","e","d"," ","V","o","t","e","r","s">>, district |-> <<>>,
                          party |-> <<>>, candidate |-> <<>>,
                          votes |-> RegisteredVotersOf(line'),
                          absentee |-> EmptyCell, early_voting |-> EmptyCell,
                          election_day |-> EmptyCell])]_vars

\* C7's case: the line with the thousands comma has just given the first
\* record of a precinct.
C7_Witness ==
    /\ parser \in {"electionware", "electionware2", "fort_bend"}
    /\ line = S_RV1053
    /\ scanned = 2
    /\ Len(data) = 1
    /\ data[1].office = <<"R","e","g","i","s","t","e","r","e","d"," ","V","o","t","e","r","s">>
    /\ data[1].votes = 1053
    /\ (current_precinct \o <<"_","r","e","g","i","s","t","e","r","e","d">>) \in precinct_stats_added

\* The tokens of the line that are whole counts ([\d,]+).
NumericFields(l) == Len(NumberTokens(SplitWs(l)))

\* The line starts with a party token.
StartsWithParty(l) ==
    SplitWs(l) # <<>> /\ SplitWs(l)[1] \in (PartyCodes \cup collin_codes)

\* The number of counts a candidate needs: total and five methods in
\* collin.py, total and three methods in fort_bend.py.
MinFields(p) == IF p = "collin" THEN 6 ELSE 4

\* C8 as stated: in collin.py and fort_bend.py a line that starts with a
\* party token and holds fewer numeric vote fields than the parser needs
\* gives no record, neither through the strict pattern nor through a fallback.
C8_AsStated ==
    [][(/\ parser \in {"collin", "fort_bend"}
        /\ scanned' = scanned + 1
        /\ StartsWithParty(line')
        /\ NumericFields(line') < MinFields(parser))
       => data' = data]_vars


\* ------------------------------------------------------------ C11 .. C20
S_JohnSmithREP == <<"J","o","h","n"," ","S","m","i","t","h"," ","(","R","E","P",")">>
S_REP == <<"R","E","P">>

\* C11 as stated: on every path that resolves the party from the candidate
\* text, a text holding the double marker (I)(I) resolves to party "I" and to a
\* candidate with no (I) marker left in it.
C11_AsStated ==
    (resolved.by \in {"parse_candidate_party", "statewide_results"}
        /\ Contains(text, <<"(","I",")","(","I",")">>))
        => /\ resolved.ok
           /\ resolved.party = <<"I">>
           /\ ~Contains(resolved.candidate, <<"(","I",")">>)

\* A text made of a name, one parenthesised abbreviation and nothing after it,
\* with no (I) marker.
ParenSuffix(s) ==
    /\ ~Contains(s, <<"(","I",")">>)
    /\ Len(Split(Strip(s), <<"(">>)) = 2
    /\ Split(Strip(s), <<")">>) = <<Split(Strip(s), <<")">>)[1], <<>>>>
    /\ ~Contains(Split(Strip(s), <<"(">>)[1], <<")">>)

\* C12: parse_candidate_party resolves every text that holds (I) to party "I",
\* whatever else stands in parentheses; a text with a parenthesised suffix and
\* no (I) resolves to the trimmed name before the parenthesis and the trimmed
\* text inside it: "John Smith (REP)" gives "John Smith", "REP".
C12_MarkerBeforeGeneric ==
    resolved.by = "parse_candidate_party" =>
        /\ Contains(text, <<"(","I",")">>) => resolved.party = <<"I">>
        /\ ParenSuffix(text) =>
             /\ resolved.candidate = Strip(Split(Strip(text), <<"(">>)[1])
             /\ resolved.party = Strip(Split(Split(Strip(text), <<"(">>)[2], <<")">>)[1])
        /\ text = S_JohnSmithREP =>
             (resolved.candidate = S_JohnSmith /\ resolved.party = S_REP)

C12_Witness ==
    /\ resolved.by = "parse_candidate_party"
    /\ text = <<"(","R","E","P",")","(","I",")">>
    /\ resolved.party = <<"I">>

C12_WitnessGeneric ==
    /\ resolved.by = "parse_candidate_party"
    /\ text = S_JohnSmithREP
    /\ resolved.candidate = S_JohnSmith
    /\ resolved.party = S_REP


\* text starts, once trimmed, with a prefix of party_prefixes
HasPartyPrefix(s) == \E k \in 1..Len(party_prefixes) : StartsWith(Strip(s), party_prefixes[k])

\* C13: clean_candidate_name cuts one known party prefix off the front of the
\* trimmed text and trims what is left, whatever that starts with; a text with
\* no known prefix comes back trimmed and otherwise unchanged.  "REP DEM Smith"
\* gives "DEM Smith".
C13_OnePrefixStripped ==
    resolved.by = "clean_candidate_name" =>
        /\ HasPartyPrefix(text) =>
             resolved.candidate = Strip(SubSeq(Strip(text), 5, Len(Strip(text))))
        /\ ~HasPartyPrefix(text) => resolved.candidate = Strip(text)
        /\ text = <<"R","E","P"," ","D","E","M"," ","S","m","i","t","h">> => resolved.candidate = <<"D","E","M"," ","S","m","i","t","h">>

C13_Witness ==
    /\ resolved.by = "clean_candidate_name"
    /\ text = <<"R","E","P"," ","D","E","M"," ","S","m","i","t","h">>
    /\ resolved.candidate = <<"D","E","M"," ","S","m","i","t","h">>


S_StateRep == <<"S","t","a","t","e"," ","R","e","p","r","e","s","e","n","t","a","t","i","v","e">>

\* C14 as stated: parse_office gives ("President", None) for "President/Vice
\* President", and ("State Representative", "14") for "State Representative,
\* District 14 - REP".
C14_AsStated ==
    normalized.by = "parse_office" =>
        /\ raw_office = <<"P","r","e","s","i","d","e","n","t","/","V","i","c","e"," ","P","r","e","s","i","d","e","n","t">> =>
             (normalized.office = <<"P","r","e","s","i","d","e","n","t">> /\ normalized.district = None)
        /\ raw_office = <<"S","t","a","t","e"," ","R","e","p","r","e","s","e","n","t","a","t","i","v","e",","," ","D","i","s","t","r","i","c","t"," ","1","4"," ","-"," ","R","E","P">> =>
             (normalized.office = S_StateRep /\ normalized.district = <<"1","4">>)


\* The standardisation rules of parse_office in declared order: the triggers of
\* a rule and the name it gives.
parse_office_rules ==
    <<[triggers |-> {<<"P","r","e","s","i","d","e","n","t","/","V","i","c","e"," ","P","r","e","s","i","d","e","n","t">>}, canonical |-> <<"P","r","e","s","i","d","e","n","t">>],
      [triggers |-> {<<"U","n","i","t","e","d"," ","S","t","a","t","e","s"," ","S","e","n","a","t","o","r">>, <<"U","S"," ","S","e","n","a","t","o","r">>, <<"U","."," ","S","."," ","S","e","n","a","t","o","r">>},
       canonical |-> <<"U",".","S","."," ","S","e","n","a","t","e">>],
      [triggers |-> {<<"U","S"," ","R","e","p","r","e","s","e","n","t","a","t","i","v","e">>, <<"U",".","S","."," ","R","e","p","r","e","s","e","n","t","a","t","i","v","e">>, <<"U","n","i","t","e","d"," ","S","t","a","t","e","s"," ","R","e","p","r","e","s","e","n","t","a","t","i","v","e">>},
       canonical |-> <<"U",".","S","."," ","H","o","u","s","e">>]>>

\* The rules of collin.normalize_office_name in declared order; canonical None
\* for a rule that returns the text it was given.
collin_rules ==
    <<[triggers |-> {<<"P","r","e","s","i","d","e","n","t","/","V","i","c","e"," ","P","r","e","s","i","d","e","n","t">>, <<"P","r","e","s","i","d","e","n","t"," ","a","n","d"," ","V","i","c","e"," ","P","r","e","s","i","d","e","n","t">>},
       canonical |-> <<"P","r","e","s","i","d","e","n","t">>],
      [triggers |-> {<<"U","n","i","t","e","d"," ","S","t","a","t","e","s"," ","S","e","n","a","t","o","r">>, <<"U",".","S","."," ","S","e","n","a","t","o","r">>}, canonical |-> <<"U",".","S","."," ","S","e","n","a","t","e">>],
      [triggers |-> {<<"U","n","i","t","e","d"," ","S","t","a","t","e","s"," ","R","e","p","r","e","s","e","n","t","a","t","i","v","e">>, <<"U",".","S","."," ","R","e","p","r","e","s","e","n","t","a","t","i","v","e">>},
       canonical |-> <<"U",".","S","."," ","H","o","u","s","e">>],
      [triggers |-> {<<"S","t","a","t","e"," ","R","e","p","r","e","s","e","n","t","a","t","i","v","e">>}, canonical |-> <<"S","t","a","t","e"," ","R","e","p","r","e","s","e","n","t","a","t","i","v","e">>],
      [triggers |-> {<<"S","t","a","t","e"," ","S","e","n","a","t","o","r">>}, canonical |-> <<"S","t","a","t","e"," ","S","e","n","a","t","o","r">>],
      [triggers |-> {<<"R","a","i","l","r","o","a","d"," ","C","o","m","m","i","s","s","i","o","n","e","r">>}, canonical |-> <<"R","a","i","l","r","o","a","d"," ","C","o","m","m","i","s","s","i","o","n","e","r">>],
      [triggers |-> {<<"J","u","s","t","i","c","e",","," ","S","u","p","r","e","m","e"," ","C","o","u","r","t">>}, canonical |-> None],
      [triggers |-> {<<"J","u","d","g","e",",">>, <<"J","u","s","t","i","c","e",",">>, <<"P","r","e","s","i","d","i","n","g"," ","J","u","d","g","e">>, <<"D","i","s","t","r","i","c","t"," ","J","u","d","g","e">>},
       canonical |-> None],
      [triggers |-> {<<"M","e","m","b","e","r",","," ","S","t","a","t","e"," ","B","o","a","r","d"," ","o","f"," ","E","d","u","c","a","t","i","o","n">>, <<"M","e","m","b","e","r",","," ","S","t","a","t","e"," ","B","o","E">>},
       canonical |-> <<"S","t","a","t","e"," ","B","o","a","r","d"," ","o","f"," ","E","d","u","c","a","t","i","o","n">>],
      [triggers |-> {<<"C","h","i","e","f"," ","J","u","s","t","i","c","e">>}, canonical |-> None],
      [triggers |-> {<<"C","o","u","n","t","y">>}, canonical |-> None],
      [triggers |-> {<<"S","h","e","r","i","f","f">>}, canonical |-> <<"S","h","e","r","i","f","f">>],
      [triggers |-> {<<"C","o","n","s","t","a","b","l","e">>}, canonical |-> None],
      [triggers |-> {<<"P","r","o","p","o","s","i","t","i","o","n">>}, canonical |-> None]>>

\* The rules of which a trigger is a substring of s.
Triggered(rules, s) == {k \in 1..Len(rules) : \E t \in rules[k].triggers : Contains(s, t)}

\* The name the first triggered rule gives to s; s itself when none is triggered.
FirstRule(rules, s) ==
    IF Triggered(rules, s) = {} THEN s
    ELSE LET k == CHOOSE k \in Triggered(rules, s) : \A j \in Triggered(rules, s) : k <= j
         IN  IF rules[k].canonical = None THEN s ELSE rules[k].canonical

\* C15 as stated: an office normaliser returns the name of the first rule, in
\* declared order, of which a trigger is a substring of the raw office text, and
\* the raw office text unchanged when no rule is triggered.
C15_AsStated ==
    /\ normalized.by = "parse_office"
         => normalized.office = FirstRule(parse_office_rules, raw_office)
    /\ normalized.by = "collin.normalize_office_name"
         => normalized.office = FirstRule(collin_rules, raw_office)


\* The part of the office text parse_office takes as the office: the trimmed
\* text before the first " - ", else before the first ",", else all of it.
OfficePart(s) ==
    IF Contains(Strip(s), <<" ","-"," ">>) THEN Strip(Split(Strip(s), <<" ","-"," ">>)[1])
    ELSE IF Contains(Strip(s), <<",">>) THEN Strip(Split(Strip(s), <<",">>)[1])
    ELSE Strip(s)

\* C15 amended: parse_office returns the name of the first rule, in declared
\* order, of which a trigger is a substring of the office part of the text, and
\* the office part unchanged when no rule is triggered;
\* collin.normalize_office_name does the same on the trimmed text.
C15_FirstRuleOnOfficePart ==
    /\ normalized.by = "parse_office"
         => normalized.office = FirstRule(parse_office_rules, OfficePart(raw_office))
    /\ normalized.by = "collin.normalize_office_name"
         => normalized.office = FirstRule(collin_rules, Strip(raw_office))

C15_Witness ==
    /\ normalized.by = "parse_office"
    /\ raw_office = <<"P","r","e","s","i","d","e","n","t","/","V","i","c","e"," ","P","r","e","s","i","d","e","n","t","U","S"," ","S","e","n","a","t","o","r"," ","-"," ","R","E","P">>
    /\ Cardinality(Triggered(parse_office_rules, OfficePart(raw_office))) = 2
    /\ normalized.office = <<"P","r","e","s","i","d","e","n","t">>

C15_WitnessCollin ==
    /\ normalized.by = "collin.normalize_office_name"
    /\ raw_office = <<"C","o","u","n","t","y"," ","S","h","e","r","i","f","f">>
    /\ Cardinality(Triggered(collin_rules, raw_office)) = 2
    /\ normalized.office = raw_office


\* C16 as stated: a line scanned while current_precinct or current_office is
\* unset appends no record.
C16_AsStated ==
    [][(/\ scanned' = scanned + 1
        /\ (current_precinct = None \/ current_office = None))
       => data' = data]_vars


\* The line has no digit: no pattern that captures a count matches it.
NoDigit(l) == \A i \in 1..Len(l) : l[i] \notin DigitSet

\* A pattern of parser p matches the line and one of its captured fields
\* does not convert with int().
FailsToParse(p, l) ==
    IF p = "collin"
    THEN \/ collin_candidate_match(l).ok /\ ~AllNum(collin_candidate_match(l).groups)
         \/ collin_prop_match(l)
            /\ ~AllNum(<<SplitWs(l)[2]>> \o SubSeq(SplitWs(l), 4, 8))
    ELSE \/ \E lit \in {<<"R","e","g","i","s","t","e","r","e","d"," ","V","o","t","e","r","s"," ","-"," ","T","o","t","a","l">>} :
               LET match == SearchFields(l, <<lit>>, 1, DigitComma)
               IN  match.ok /\ ~AllNum(match.groups)
         \/ \E lit \in {<<"B","a","l","l","o","t","s"," ","C","a","s","t"," ","-"," ","T","o","t","a","l">>, <<"B","a","l","l","o","t","s"," ","C","a","s","t"," ","-"," ","B","l","a","n","k">>, <<"O","v","e","r","v","o","t","e","s">>, <<"U","n","d","e","r","v","o","t","e","s">>} :
               LET match == SearchFields(l, <<lit>>, 4, DigitComma)
               IN  match.ok /\ ~AllNum(match.groups)
         \/ /\ p = "electionware2"
            /\ electionware2_candidate_match(l).ok
            /\ ~AllNum(electionware2_candidate_match(l).groups)

\* s is the start of t.
IsPrefix(s, t) == Len(s) <= Len(t) /\ SubSeq(t, 1, Len(s)) = s

C17_WitnessUnclassified ==
    /\ line = <<"S","t","a","t","i","s","t","i","c","s">>
    /\ current_office # None
    /\ data # <<>>


\* The offices of the statistics rows, which carry no candidate.
StatisticOffices == {<<"R","e","g","i","s","t","e","r","e","d"," ","V","o","t","e","r","s">>, <<"B","a","l","l","o","t","s"," ","C","a","s","t">>, <<"B","a","l","l","o","t","s"," ","C","a","s","t"," ","-"," ","B","l","a","n","k">>}

\* A key component that is None or ''.
Missing(v) == v = None \/ v = <<>>

\* C18 as stated: every record of the store that is not a statistics row
\* has a precinct, an office and a candidate.
C18_AsStated ==
    \A i \in 1..Len(results) :
        LET key == results[i].key
        IN  key[3] \notin StatisticOffices
                => ~Missing(key[2]) /\ ~Missing(key[3]) /\ ~Missing(key[6])


\* The vote methods stored in the records, the two figures of the turnout
\* rows left out.
StoredMethods ==
    UNION {DOMAIN results[i].vote_data : i \in 1..Len(results)}
        \ {<<"v","o","t","e","s","_","o","n","l","y">>, <<"b","a","l","l","o","t","s","C","a","s","t">>}

\* C19 as stated: the dynamic columns are the normalised names of the vote
\* methods stored in the records, in ascending order, none repeated.
C19_AsStated ==
    (pc = "done" /\ output.written) =>
        /\ {output.headers[i] : i \in 1..Len(output.headers)}
              = {column_name(m) : m \in StoredMethods}
        /\ \A i, j \in 1..Len(output.headers) :
              i < j => StrLess(output.headers[i], output.headers[j])


\* C20 as stated: a county's pass that runs beside another's ends with the
\* record store it builds from its own detail.xml when run alone.
C20_AsStated ==
    \A i \in 1..Len(scans) :
        scans[i].at = "done"
            => scans[i].store = scan_store(scans[i].county_name, scans[i].file.results,
                                           scans[i].file.turnout)


C22_DistrictFromLatestHeader ==
    [][/\ (current_office' # current_office => current_office' = line')
       /\ (district' # district => current_office' = line')
       /\ (current_office' = line' /\ NoDigit(line') => district' = <<>>)
       /\ (district' # <<>> => /\ current_office' # None
                               /\ Contains(current_office', <<" ">> \o district'))
       /\ \A k \in (Len(data) + 1)..Len(data') :
              data'[k].office \notin StatisticOffices => data'[k].district = district'
      ]_vars

\* A record with a district was appended, then a header without a number
\* replaced the office and emptied the district.
C22_Witness ==
    /\ data # <<>>
    /\ data[Len(data)].office \notin StatisticOffices
    /\ data[Len(data)].district # <<>>
    /\ current_office = line
    /\ NoDigit(line)
    /\ district = <<>>


\* C23: the district of an office header is taken by the first extractor
\* that matches, in the order District N, Place N, Pct N, Precinct No. N:
\* whenever the current header holds "District N", the district is N in
\* every parser, whether or not a "Place B" follows it.
C23_AsStated ==
    /\ current_office # None
    /\ FirstDistrict(current_office, <<<<<<"D","i","s","t","r","i","c","t">>>>>>) # <<>>
    => district = FirstDistrict(current_office, <<<<<<"D","i","s","t","r","i","c","t">>>>>>)


\* C24: data never holds two records of the same singleton statistic
\* (Registered Voters, Ballots Cast, Ballots Cast - Blank) for the same
\* precinct name, however often the summary block is repeated.
C24_AsStated ==
    \A i \in 1..Len(data) : \A j \in 1..Len(data) :
        /\ i < j
        /\ data[i].office \in StatisticOffices
        /\ data[i].office = data[j].office
        => data[i].precinct # data[j].precinct


\* C25 as stated: in the parsers that keep statistic flags, every key of
\* the flag set describes the precinct that is current.
C25_AsStated ==
    parser \in {"electionware", "electionware2", "fort_bend"} =>
        \A key \in precinct_stats_added : IsPrefix(current_precinct \o <<"_">>, key)

\* C25: a precinct header replaces current_precinct and appends no record.
\* fort_bend empties the flag set on every precinct header, so its keys
\* describe the current precinct only; electionware and electionware2 never
\* take a key out of the set, whose keys describe every precinct that
\* already has a statistic record.
C25_FlagSetPerParser ==
    [][/\ parser \in {"electionware", "electionware2", "fort_bend"}
          /\ current_precinct' # current_precinct
          => /\ current_precinct' # None
             /\ data' = data
       /\ parser = "fort_bend" /\ fort_bend_precinct_match(line').ok
          => /\ current_precinct' = fort_bend_precinct_match(line').name
             /\ precinct_stats_added' = {}
       /\ parser = "fort_bend"
          => \A key \in precinct_stats_added' : IsPrefix(current_precinct' \o <<"_">>, key)
       /\ parser = "electionware" /\ StartsWith(line', <<"P","r","e","c","i","n","c","t"," ">>)
          => current_precinct' = <<"P","r","e","c","i","n","c","t"," ">> \o LStrip(Drop(line', 9))
       /\ parser \in {"electionware", "electionware2"}
          => /\ precinct_stats_added \subseteq precinct_stats_added'
             /\ \A key \in precinct_stats_added' :
                    \E k \in 1..Len(data') :
                        /\ data'[k].office \in StatisticOffices
                        /\ IsPrefix(data'[k].precinct \o <<"_">>, key)
      ]_vars

\* After a precinct header of electionware the flag set still holds a key
\* of the precinct before it.
C25_Witness ==
    /\ parser = "electionware"
    /\ line = current_precinct
    /\ \E key \in precinct_stats_added : ~IsPrefix(current_precinct \o <<"_">>, key)


\* C26: electionware2 never adopts as current_precinct a line that holds
\* one of its office-indicator keywords, neither by the short-line
\* heuristic nor by the ISD/CISD suffix rule.
C26_AsStated ==
    parser = "electionware2" /\ current_precinct # None =>
        \A indicator \in electionware2_office_indicators :
            ~Contains(current_precinct, indicator)


\* The current office holds a board or proposition marker.
NonPartisanOffice(office) ==
    /\ office # None
    /\ (Contains(office, <<"B","o","a","r","d">>) \/ Contains(office, <<"P","r","o","p","o","s","i","t","i","o","n">>))

\* C27: in electionware2 a line of non-partisan candidate shape (a name,
\* then four counts, no party token, not a For/Against choice) yields a
\* record with that name as candidate only when the current office holds
\* "Board" or "Proposition"; such a record has no party.
C27_NonPartisanGated ==
    [][/\ parser = "electionware2"
       /\ electionware2_nonpartisan_match(line').ok
       /\ ~electionware2_candidate_match(line').ok
       /\ ~electionware2_prop_match(line').ok
       => \A k \in (Len(data) + 1)..Len(data') :
              data'[k].candidate = electionware2_nonpartisan_match(line').name
              => /\ NonPartisanOffice(current_office')
                 /\ data'[k].party = <<>>
      ]_vars

\* The non-partisan rule has appended a record under a board office.
C27_Witness ==
    /\ parser = "electionware2"
    /\ electionware2_nonpartisan_match(line).ok
    /\ ~electionware2_candidate_match(line).ok
    /\ NonPartisanOffice(current_office)
    /\ data # <<>>
    /\ data[Len(data)].candidate = electionware2_nonpartisan_match(line).name
    /\ data[Len(data)].party = <<>>


\* C28: when statewide_results ends, the file holds exactly one row for
\* every record of the list, and the votes of the row are the record's
\* "Election Day" count; this for every record, whether or not it has a
\* count under "Election Day".
C28_AsStated ==
    statewide.at \in {"done", "raised"} =>
        /\ Len(statewide.rows) = Len(statewide.results)
        /\ \A k \in 1..Len(statewide.rows) :
               /\ <<"E","l","e","c","t","i","o","n"," ","D","a","y">> \in DOMAIN statewide.results[k].by_type
               /\ statewide.rows[k].votes = statewide.results[k].by_type[<<"E","l","e","c","t","i","o","n"," ","D","a","y">>]


\* The office text holds one of the qualifiers parse_office looks for.
Qualified(office_text) ==
    \/ Contains(office_text, <<","," ","D","i","s","t","r","i","c","t">>)
    \/ Contains(office_text, <<","," ","D","i","s","t">>)
    \/ Contains(office_text, <<"P","r","e","c","i","n","c","t">>)
    \/ Contains(office_text, <<","," ","P","l"," ">>)

\* C29: parse_office returns district None unless the text holds a
\* ", District", ", Dist", "Precinct" or ", Pl " qualifier, and a district
\* it returns is the value of the qualifier alone, without a trailing
\* " - <PARTY>", whichever the qualifier.
C29_AsStated ==
    normalized.by = "parse_office" =>
        /\ (~Qualified(raw_office) => normalized.district = None)
        /\ (normalized.district # None => ~Contains(normalized.district, <<" ","-"," ">>))


\* The office a parser writes in a record for the header in office.
NormalizedOffice(p, office) ==
    CASE p = "electionware" -> electionware_normalize_office_name(office)
      [] p = "electionware2" -> electionware2_normalize_office_name(office)
      [] p = "fort_bend" -> fort_bend_normalize_office_name(office)
      [] p = "collin" -> collin_normalize_office_name(office)
      [] OTHER -> greenbox_normalize_office_name(office)

C31_AsStated ==
    [][current_office' # None /\ current_office' = line' => data' = data]_vars


\* The line matches the strict partisan candidate pattern of the parser:
\* party token, candidate name, the full tuple of numeric fields.
StrictPartisan(p, l) ==
    CASE p = "electionware" -> CandidateMatch(l, PartyCodes, DigitSet).ok
      [] p = "electionware2" -> electionware2_candidate_match(l).ok
      [] p = "collin" -> collin_candidate_match(l).ok
      [] OTHER -> FALSE

\* C32: while a precinct and an office are current, a pass over a line that
\* matches the strict partisan candidate pattern appends exactly one
\* record, whatever the name of the candidate.
C32_AsStated ==
    [][/\ scanned' = scanned + 1
       /\ current_precinct # None
       /\ current_office # None
       /\ StrictPartisan(parser, line')
       => Len(data') = Len(data) + 1
      ]_vars


\* The five method values of a collin record, in column order.
MethodValues(r) ==
    <<r.election_day, r.early_voting, r.ballot_by_mail, r.provisional, r.limited>>

\* Position of the percentage field among the whitespace fields of l (0 when
\* there is none).
PercentField(l) ==
    LET T == SplitWs(l)
        at == {j \in 1..Len(T) : T[j][Len(T[j])] = "%"}
    IN  IF at = {} THEN 0 ELSE CHOOSE j \in at : \A k \in at : j <= k

\* C33: a collin record appended for a party-prefixed line that the strict
\* pattern does not match (a fallback record) takes votes from the field
\* before the percentage and the method values from the fields after the
\* percentage, in order, as the strict pattern does.
C33_AsStated ==
    [][/\ parser = "collin"
       /\ scanned' = scanned + 1
       /\ ~collin_candidate_match(line').ok
       /\ \E code \in {<<"R","e","p"," ">>, <<"D","e","m"," ">>, <<"L","i","b"," ">>, <<"G","r","n"," ">>, <<"I","N","D"," ">>} : StartsWith(line', code)
       /\ Len(data') = Len(data) + 1
       => LET T == SplitWs(line')
              at == PercentField(line')
              r == data'[Len(data')]
          IN  /\ at > 1
              /\ r.votes = Num(T[at - 1])
              /\ \A m \in 1..5 : at + m <= Len(T) => MethodValues(r)[m] = Num(T[at + m])
      ]_vars


\* C34: every pass of the fort_bend loop body advances the line index by
\* exactly one, whichever path the line takes, and the index never passes
\* the number of lines: each line is visited once and the scan is over after
\* as many passes as there are lines.
C34_IndexAdvancesByOne ==
    [][parser = "fort_bend" /\ csv' = csv
       => /\ scanned' = scanned + 1
          /\ scanned' <= MaxLines
      ]_vars

\* The fort_bend scan has visited every line; the last pass went through the
\* candidate branch and appended a record.
C34_Witness ==
    /\ parser = "fort_bend"
    /\ scanned = MaxLines
    /\ data # <<>>
    /\ data[Len(data)].party \in PartyCodes
    /\ \E code \in PartyCodes : StartsWith(line, code)


\* C35: for a candidate text with a parenthesis and no party known
\* otherwise, the inline resolution of statewide_results gives the pair
\* (candidate, party) that parse_candidate_party gives.
C35_AsStated ==
    resolved.by = "statewide_results" /\ Contains(text, <<"(">>) =>
        /\ resolved.ok
        /\ resolved.candidate = parse_candidate_party(text)[1]
        /\ resolved.party = parse_candidate_party(text)[2]


\* C36 as stated: in the sequential loop of download_county_files, a
\* sub-jurisdiction whose precinct file was written has the record store of
\* the detail.xml of its own archive, and one whose pass ended without a
\* file is listed in no_xml.
C36_AsStated ==
    \A i \in 1..Len(scans) :
        /\ scans[i].at = "done"
             => /\ scans[i].archive.file.exists
                /\ scans[i].store = scan_store(scans[i].county_name,
                                               scans[i].archive.file.results,
                                               scans[i].archive.file.turnout)
        /\ scans[i].at \in {"returned", "raised"}
             => \E n \in 1..Len(no_xml) : no_xml[n] = scans[i].county_name


\* C37 as stated: all rows of one precinct_results output carry the same
\* county, the candidate rows of the main loop and the Registered Voters and
\* Ballots Cast rows of add_voter_turnout_rows alike.
C37_AsStated ==
    pc = "done" =>
        \A i, j \in 1..Len(output.rows) : output.rows[i].county = output.rows[j].county


\* C38 as stated: for a precinct whose ballotsCast turnout attribute is
\* non-zero, the votes of the emitted "Ballots Cast" row are that value, with
\* or without per-VoteType breakdowns in the VoterTurnout section.
C38_AsStated ==
    pc = "done" /\ turnout.readable /\ turnout.present =>
        \A n \in 1..Len(turnout.precincts) :
            LET tp == turnout.precincts[n]
            IN  tp.ballotsCast # <<>> /\ tp.ballotsCast # <<"0">> /\ IsInt(tp.ballotsCast) =>
                    \E i \in 1..Len(output.rows) :
                        /\ output.rows[i].office = <<"B","a","l","l","o","t","s"," ","C","a","s","t">>
                        /\ output.rows[i].precinct = tp.name
                        /\ output.rows[i].votes = IntOf(tp.ballotsCast)

====
